---- MODULE Spec2Model ----
(***************************************************************************)
(* Frame pacing and swapchain lifecycle of the Vulkan renderer             *)
(* (src/Vulkan_Renderer/HelloTriangleApp.cpp).                             *)
(*                                                                         *)
(* The CPU thread runs MainLoop: glfwPollEvents, then DrawFrame, whose     *)
(* Vulkan calls are the steps of the model (pc is the position of the      *)
(* thread).  The GPU graphics queue, the presentation engine and the       *)
(* window system run asynchronously and are the remaining actions.         *)
(***************************************************************************)
EXTENDS Integers, Sequences, FiniteSets, TLC

\* ---------------------------------------------------------------- bounds
MaxDim == 1          \* window / surface dimensions range over 0..MaxDim
MaxGen == 2          \* number of swapchains created in one run (1 + recreates)
MaxMinImageCount == 2 \* the surface's minImageCount ranges over 2..MaxMinImageCount
MaxList == 2         \* the surface reports 1..MaxList formats and 1..MaxList present modes
MaxRecreates == 2    \* calls of RecreateSwapChain on a surface that is held fixed
MaxMemTypes == 2     \* memoryTypeCount is in 1..MaxMemTypes
MaxTransfers == 4    \* transfer calls made in succession
MaxTexDim == 4       \* width and height of a loaded picture are in 1..MaxTexDim
MaxPicDim == 512     \* the same, where only the mip level count is computed
MaxMips == 3         \* mip levels of the image handed to TransitionImageLayout
MaxBytes == 3        \* the host data of an upload has 1..MaxBytes bytes
MaxExtraImages == 1   \* images a swapchain can have beyond the number asked for
MaxEvents == 3        \* window events that arrive while RecreateSwapChain waits

\* ------------------------------------------------------ program constants
MAX_FRAMES_IN_FLIGHT == 2

\* the largest value of the dimension type (0xFFFFFFFF in the program):
\* no window or surface dimension of the model reaches it
UINT32_MAX == MaxDim + 1

VK_NULL_HANDLE == 0

Slots == 0 .. (MAX_FRAMES_IN_FLIGHT - 1)
Dims == 0 .. MaxDim
\* glfwGetFramebufferSize and the surface query return the size of the
\* window at the time of the call.  Any two such calls of the program are
\* separated by glfwPollEvents or glfwWaitEvents, which process the window's
\* events (resize, minimise, restore), so each call may find any size.
Sizes == Dims \X Dims
NonZeroSizes == (1 .. MaxDim) \X (1 .. MaxDim)
SpecialExtent == <<UINT32_MAX, UINT32_MAX>>
NoSem == -1
NoImage == -1

\* values of locals that are not in scope
NoCaps == [currentExtent |-> <<0, 0>>, minImageExtent |-> <<0, 0>>, maxImageExtent |-> <<0, 0>>,
           minImageCount |-> 0]
NoCreateInfo == [minImageCount |-> 0, imageExtent |-> <<0, 0>>, oldSwapchain |-> VK_NULL_HANDLE,
                 window |-> <<0, 0>>, previous |-> VK_NULL_HANDLE, previousLive |-> FALSE]

Range(s) == {s[i] : i \in 1 .. Len(s)}

\* position of the first occurrence of e in the log s (0 when absent)
Pos(s, e) == IF e \in Range(s) THEN CHOOSE i \in 1 .. Len(s) : s[i] = e /\ \A j \in 1 .. (i - 1) : s[j] # e ELSE 0

VARIABLES
  pc,                 \* position of the CPU thread
  ret,                \* where RecreateSwapChain returns to
  m_currentFrame,     \* slot index
  imageIndex,         \* DrawFrame local: index returned by acquire
  result,             \* DrawFrame local: the VkResult under test ("NONE" once tested)
  m_inFlightFences,   \* slot -> signaled?
  m_imageAvailableSemaphores, \* slot -> "unsignaled" | "signaled"
  m_renderFinishedSemaphores, \* slot -> "unsignaled" | "signaled"
  acquiring,          \* pending acquire signal operations
  queue,              \* graphics queue: submitted, not yet completed
  presents,           \* present queue: queued presentation requests
  imgState,           \* state of each image of the current swapchain
  m_uniformBuffers,   \* slot -> "unwritten" | "written"
  m_commandBuffers,   \* slot -> what is recorded: image index (framebuffer), descriptor set
  width, height,      \* RecreateSwapChain locals
  platformFixed,      \* surface reports a fixed currentExtent
  resize,             \* resize notification of the window: "none" | "queued" | "dispatched"
  caps,               \* CreateSwapChain local: capabilities returned by the query
  createInfo,         \* CreateSwapChain local: the VkSwapchainCreateInfoKHR
  m_swapChain, m_oldSwapChain, m_swapChainExtent,
  numImages,          \* m_swapChainImageBuffers.size()
  gen,                \* number of swapchains created so far
  live,               \* live swapchain-dependent objects <<kind, gen>>
  extentOf,           \* kind -> the extent the dependent object of that kind was built with
  resources,          \* live device objects made once by InitVulkan <<kind, index>>
  tickLog             \* steps taken in the current frame tick

\* state of the separate specifications of single functions and calls
VARIABLES
  surface,            \* what the surface reports: window size, capabilities, formats, present modes
  m_swapChainImageFormat,
  imageColorSpace,    \* createInfo.imageColorSpace of the current swapchain
  presentMode         \* createInfo.presentMode of the current swapchain

surfaceVars == <<surface, m_swapChainImageFormat, imageColorSpace, presentMode>>

\* one buffer or image and its memory, from creation to CleanUp
VARIABLES
  NDEBUG,             \* TRUE in a build that defines NDEBUG: assert(e) expands to nothing
  memoryProperties,   \* propertyFlags of memoryTypes[0 .. memoryTypeCount - 1] (at positions 1 ..)
  memoryTypeBits,     \* memoryRequirements.memoryTypeBits of the buffer or image
  pFlags,             \* the property flags the caller asks for
  bufferKind,         \* "Buffer" | "ImageBuffer"
  mpc,                \* position in creation and CleanUp
  memoryTypeIndex,    \* allocInfo.memoryTypeIndex
  m_buffer,           \* m_buffer or m_image: "null" | "live" | "failed" | "destroyed"
  m_imageView,        \* "null" | "live" | "failed" | "destroyed"
  m_memory,           \* "null" | "live" | "failed" | "freed"
  allocatedType,      \* memory type index the allocation was made with
  bound,              \* the bind function has been called
  releaseLog          \* parts released by CleanUp, in order

memVars == <<NDEBUG, memoryProperties, memoryTypeBits, pFlags, bufferKind, mpc, memoryTypeIndex,
             m_buffer, m_imageView, m_memory, allocatedType, bound, releaseLog>>

\* the transfer calls: one-time command buffers on the graphics queue
VARIABLES
  transferCall,       \* the call in progress: "none" | "CopyBuffer" | "CopyBuffer2Image"
  tpc,                \* position in the call
  callCount,          \* transfer calls begun so far
  commandBuffer,      \* the call's command buffer: state, begin flags, recorded commands
  poolAllocated,      \* command buffers allocated from m_commandPool and not freed
  m_graphicsQueue,    \* command buffers submitted and not yet executed, oldest first
  executed,           \* copy commands the GPU has completed, in order of completion
  callLog             \* API calls of the call in progress or last returned, in order

transferVars == <<transferCall, tpc, callCount, commandBuffer, poolAllocated, m_graphicsQueue,
                  executed, callLog>>

\* the image of one Texture while CreateTextureImage runs
VARIABLES
  texWidth,           \* width of the loaded picture
  texHeight,          \* height of the loaded picture
  hasMipLevels,       \* argument of CreateTextureImage
  m_mipLevels,        \* m_imageBuffer's mip level count
  layout,             \* actual layout of each mip level of the image
  xpc,                \* position in CreateTextureImage and GenerateMipmaps
  mip,                \* loop variable i of GenerateMipmaps
  mipWidth,           \* local of GenerateMipmaps
  mipHeight,          \* local of GenerateMipmaps
  cmdLog              \* commands executed on the image, in order

textureVars == <<texWidth, texHeight, hasMipLevels, m_mipLevels, layout, xpc, mip, mipWidth,
                 mipHeight, cmdLog>>
\* one call of ImageBuffer::TransitionImageLayout
VARIABLES
  oldLayout,          \* argument
  newLayout,          \* argument
  sourceStage,        \* local: 0 or a pipeline stage
  destinationStage,   \* local: 0 or a pipeline stage
  submitted           \* command buffers the call has handed to EndSingleTimeCommands

transitionVars == <<oldLayout, newLayout, sourceStage, destinationStage, submitted>>
\* the upload of Model::CreateVertexIndexBuffer and a copy back
VARIABLES
  dataVec,            \* the host data, as bytes
  stagingBuffer,      \* contents of the staging buffer's memory (<<>>: no such buffer)
  deviceBuffer,       \* contents of the device-local buffer's memory
  readback,           \* contents of the staging buffer a copy back fills
  upc                 \* position in the upload

uploadVars == <<dataVec, stagingBuffer, deviceBuffer, readback, upc>>
\* the image arrays of CreateSwapChain and CreateFrameBuffers
VARIABLES
  surfaceCapabilities, \* minImageCount and maxImageCount the surface reports (0: no maximum)
  imageCountAsked,    \* CreateSwapChain local imageCount, also createInfo.minImageCount
  swapchainImages,    \* number of images of the swapchain the platform made
  m_swapChainImageBuffers, \* the handle members of each element, in declaration order
  m_swapChainFrameBuffers, \* the swapchain attachment of each framebuffer
  loopIndex,          \* i of the loop of CreateSwapChain
  overrun,            \* a handle was written past the end of an ImageBuffer
  acquiredIndex,      \* image index a successful acquire returned
  framebuffer,        \* renderPassInfo.framebuffer of the last recording
  creations,          \* calls of CreateSwapChain so far
  ipc                 \* position

imagesVars == <<surfaceCapabilities, imageCountAsked, swapchainImages, m_swapChainImageBuffers,
                m_swapChainFrameBuffers, loopIndex, overrun, acquiredIndex, framebuffer,
                creations, ipc>>
\* the staging buffers of the uploads of one Model
VARIABLES
  uploadNo,           \* the upload in progress, in the order of the Model constructor
  spc,                \* position in the upload function
  staging,            \* upload -> its staging buffer: buffer, memory, size
  released,           \* upload -> release calls made on its staging buffer, in order
  srcOf               \* transfer call -> the upload whose staging buffer its copy command reads

stagingVars == <<uploadNo, spc, staging, released, srcOf>>
\* the wait loop of RecreateSwapChain and the events of the window
VARIABLES
  windowSize,         \* framebuffer size of the window
  eventQueue,         \* events of the window that are queued and not yet processed
  posted,             \* events that have arrived since the call began
  localSize,          \* the locals width and height of the call
  wpc                 \* position in the call

waitVars == <<windowSize, eventQueue, posted, localSize, wpc>>
asideVars == <<surfaceVars, memVars, transferVars, textureVars, transitionVars, uploadVars, imagesVars, stagingVars, waitVars>>

vars == <<pc, ret, m_currentFrame, imageIndex, result,
          m_inFlightFences, m_imageAvailableSemaphores, m_renderFinishedSemaphores,
          acquiring, queue, presents, imgState, m_uniformBuffers, m_commandBuffers,
          width, height, platformFixed, resize, caps, createInfo,
          m_swapChain, m_oldSwapChain, m_swapChainExtent, numImages, gen, live, extentOf, resources,
          tickLog, asideVars>>

cpuVars == <<pc, ret, m_currentFrame, imageIndex, result, tickLog>>
syncVars == <<m_inFlightFences, m_imageAvailableSemaphores, m_renderFinishedSemaphores>>
gpuVars == <<acquiring, queue, presents, imgState>>
slotVars == <<m_uniformBuffers, m_commandBuffers>>
winVars == <<width, height, platformFixed, resize>>
chainVars == <<caps, createInfo, m_swapChain, m_oldSwapChain, m_swapChainExtent, numImages, gen, live,
               extentOf>>

\* ------------------------------------------------- surface capabilities
\* vkGetPhysicalDeviceSurfaceCapabilitiesKHR: the capability sets the
\* surface can report for a window of size w.  minImageExtent <= maxImageExtent
\* always.  A platform with a fixed extent reports the window size as
\* currentExtent, which lies between the two bounds; otherwise currentExtent
\* is the special value and the bounds are at least 1 in each dimension.
MinImageCounts == 2 .. MaxMinImageCount

Bounds(lo, hi) == {b \in (lo[1] .. hi[1]) \X (lo[2] .. hi[2]) : TRUE}

CapsOf(w, fixed) ==
  IF fixed
  THEN {[currentExtent |-> w, minImageExtent |-> mn, maxImageExtent |-> mx, minImageCount |-> n] :
          mn \in Bounds(<<0, 0>>, w), mx \in Bounds(w, <<MaxDim, MaxDim>>), n \in MinImageCounts}
  ELSE {[currentExtent |-> SpecialExtent, minImageExtent |-> q[1], maxImageExtent |-> q[2],
         minImageCount |-> q[3]] :
          q \in {r \in NonZeroSizes \X NonZeroSizes \X MinImageCounts :
                   r[1][1] <= r[2][1] /\ r[1][2] <= r[2][2]}}

\* std::clamp(v, lo, hi)
ClampNone(v, lo, hi) == v
Clamp(v, lo, hi) == IF v < lo THEN lo ELSE IF hi < v THEN hi ELSE v

\* HelloTriangleApplication::ChooseSwapExtent
ChooseSwapExtent(capabilities, w) ==
  IF capabilities.currentExtent[1] # UINT32_MAX
  THEN capabilities.currentExtent
  ELSE <<Clamp(w[1], capabilities.minImageExtent[1], capabilities.maxImageExtent[1]),
         Clamp(w[2], capabilities.minImageExtent[2], capabilities.maxImageExtent[2])>>

\* objects built against a swapchain
SwapChainKinds == {"swapchain", "imageViews"}
DependentKinds == {"renderPass", "pipelineLayout", "pipeline", "renderTarget", "depth", "framebuffers"}
\* kinds of the objects CleanUpSwapChain destroys
CleanUpKinds_WithSync ==
  {"framebuffers", "pipeline", "pipelineLayout", "renderPass", "swapchain",
   "renderFinished", "imageAvailable", "fence"}
CleanUpKinds == {"framebuffers", "pipeline", "pipelineLayout", "renderPass", "swapchain"}

\* the value CreateSwapChain leaves in createInfo.oldSwapchain: the member is
\* set to m_oldSwapChain and, before the call, to VK_NULL_HANDLE
OldSwapchainPassed(old) == VK_NULL_HANDLE

\* HelloTriangleApplication::CreateSwapChain (state update; the caller sets pc);
\* W is the set of sizes the window can have at the time of the call
CreateSwapChain(W) ==
  \E win \in W : \E c \in CapsOf(win, platformFixed) :
    LET extent == ChooseSwapExtent(c, win)
        imageCount == c.minImageCount + 1
    IN /\ caps' = c
       /\ createInfo' = [minImageCount |-> imageCount, imageExtent |-> extent,
                         oldSwapchain |-> OldSwapchainPassed(m_oldSwapChain),
                         \* for the record: the window size found by this call and
                         \* the swapchain in use before it
                         window |-> win,
                         previous |-> m_swapChain,
                         previousLive |-> <<"swapchain", m_swapChain>> \in live]
       /\ gen' = gen + 1
       /\ m_swapChain' = gen + 1
       /\ numImages' = imageCount
       /\ m_swapChainExtent' = extent
       /\ imgState' = [k \in 0 .. (imageCount - 1) |-> "free"]
       /\ live' = live \cup {<<k, gen + 1>> : k \in SwapChainKinds}
       /\ UNCHANGED extentOf

\* the dependents built with a size: viewport and scissor of the pipeline,
\* the images of the multisample and depth targets, the framebuffers
SizedKinds == {"pipeline", "renderTarget", "depth", "framebuffers"}

\* the size CreateGraphicsPipeline, CreateRenderTargets, CreateDepthResources
\* and CreateFrameBuffers use
DependentExtent_Window == <<width, height>>
DependentExtent == m_swapChainExtent

\* CreateRenderPass .. CreateFrameBuffers, all built for the current swapchain
CreateDependents ==
  /\ live' = live \cup {<<k, m_swapChain>> : k \in DependentKinds}
  /\ extentOf' = [k \in SizedKinds |-> DependentExtent]

\* HelloTriangleApplication::CleanUpSwapChain
CleanUpSwapChain ==
  /\ live' = live \ {<<k, m_swapChain>> : k \in CleanUpKinds}
  /\ UNCHANGED extentOf
  /\ resources' = {o \in resources : o[1] \notin CleanUpKinds}

\* device objects InitVulkan creates once, besides the swapchain and its
\* dependents: the model's texture and buffers, the per-slot uniform buffers
\* and synchronisation objects, and the pools, layout and sampler
ModelKinds == {"textureImage", "textureMemory", "textureView",
               "vertexBuffer", "vertexMemory", "indexBuffer", "indexMemory"}
SlotKinds == {"uniformBuffer", "uniformMemory", "imageAvailable", "renderFinished", "fence"}
SingleKinds == {"descriptorSetLayout", "commandPool", "sampler", "descriptorPool"}
InitResources ==
  {<<k, 0>> : k \in SingleKinds \cup ModelKinds} \cup {<<k, s>> : k \in SlotKinds, s \in Slots}

\* kinds of the objects CleanUp destroys between its call of CleanUpSwapChain
\* and vkDestroyDevice
CleanUpDestroys ==
  {"sampler", "descriptorSetLayout", "descriptorPool", "uniformBuffer", "uniformMemory",
   "renderFinished", "imageAvailable", "fence", "commandPool"}

\* ------------------------------------------------------------------ Init
ProgramInit ==
  /\ pc = "init"
  /\ ret = "poll"
  /\ m_currentFrame = 0
  /\ imageIndex = NoImage
  /\ result = "NONE"
  /\ m_inFlightFences = [s \in Slots |-> FALSE]
  /\ m_imageAvailableSemaphores = [s \in Slots |-> "unsignaled"]
  /\ m_renderFinishedSemaphores = [s \in Slots |-> "unsignaled"]
  /\ acquiring = {}
  /\ queue = <<>>
  /\ presents = <<>>
  /\ imgState = [k \in {} |-> "free"]
  /\ m_uniformBuffers = [s \in Slots |-> "unwritten"]
  /\ m_commandBuffers = [s \in Slots |-> [image |-> NoImage, descriptorSet |-> NoSem, renderArea |-> <<0, 0>>]]
  /\ width = 0
  /\ height = 0
  /\ platformFixed \in BOOLEAN
  /\ resize = "none"
  /\ caps = NoCaps
  /\ createInfo = NoCreateInfo
  /\ m_swapChain = VK_NULL_HANDLE
  /\ m_oldSwapChain = VK_NULL_HANDLE
  /\ m_swapChainExtent = <<0, 0>>
  /\ numImages = 0
  /\ gen = 0
  /\ live = {}
  /\ extentOf = [k \in SizedKinds |-> <<0, 0>>]
  /\ resources = {}
  /\ tickLog = <<>>

\* the surface is not looked at
NoSurface == [window |-> <<0, 0>>, capabilities |-> NoCaps, formats |-> <<>>, present_modes |-> <<>>]
SurfaceUnused ==
  /\ surface = NoSurface
  /\ m_swapChainImageFormat = "UNDEFINED"
  /\ imageColorSpace = "NONE"
  /\ presentMode = "NONE"

NoMemoryType == -1
MemUnused ==
  /\ NDEBUG = FALSE
  /\ memoryProperties = <<>>
  /\ memoryTypeBits = 0
  /\ pFlags = 0
  /\ bufferKind = "Buffer"
  /\ mpc = "unused"
  /\ memoryTypeIndex = NoMemoryType
  /\ m_buffer = "null"
  /\ m_imageView = "null"
  /\ m_memory = "null"
  /\ allocatedType = NoMemoryType
  /\ bound = FALSE
  /\ releaseLog = <<>>

NoCommandBuffer == [state |-> "none", flags |-> "NONE", commands |-> <<>>, call |-> 0]
TransferUnused ==
  /\ transferCall = "none"
  /\ tpc = "unused"
  /\ callCount = 0
  /\ commandBuffer = NoCommandBuffer
  /\ poolAllocated = 0
  /\ m_graphicsQueue = <<>>
  /\ executed = <<>>
  /\ callLog = <<>>

TextureUnused ==
  /\ texWidth = 0
  /\ texHeight = 0
  /\ hasMipLevels = FALSE
  /\ m_mipLevels = 1
  /\ layout = <<>>
  /\ xpc = "unused"
  /\ mip = 0
  /\ mipWidth = 0
  /\ mipHeight = 0
  /\ cmdLog = <<>>

TransitionUnused ==
  /\ oldLayout = "UNDEFINED"
  /\ newLayout = "UNDEFINED"
  /\ sourceStage = 0
  /\ destinationStage = 0
  /\ submitted = 0

UploadUnused ==
  /\ dataVec = <<>>
  /\ stagingBuffer = <<>>
  /\ deviceBuffer = <<>>
  /\ readback = <<>>
  /\ upc = "unused"

NoHandles == [m_image |-> "null", m_memory |-> "null", m_imageView |-> "null"]
ImagesUnused ==
  /\ surfaceCapabilities = [minImageCount |-> 0, maxImageCount |-> 0]
  /\ imageCountAsked = 0
  /\ swapchainImages = 0
  /\ m_swapChainImageBuffers = <<>>
  /\ m_swapChainFrameBuffers = <<>>
  /\ loopIndex = 0
  /\ overrun = FALSE
  /\ acquiredIndex = NoImage
  /\ framebuffer = "none"
  /\ creations = 0
  /\ ipc = "unused"

StagingUnused ==
  /\ uploadNo = 0
  /\ spc = "unused"
  /\ staging = <<>>
  /\ released = <<>>
  /\ srcOf = <<>>

WaitUnused ==
  /\ windowSize = <<0, 0>>
  /\ eventQueue = 0
  /\ posted = 0
  /\ localSize = <<0, 0>>
  /\ wpc = "unused"

Init ==
  /\ ProgramInit
  /\ SurfaceUnused
  /\ WaitUnused
  /\ StagingUnused
  /\ ImagesUnused
  /\ UploadUnused
  /\ TransitionUnused
  /\ MemUnused
  /\ TransferUnused
  /\ TextureUnused

\* HelloTriangleApplication::InitVulkan: the logical device and the first
\* swapchain
InitVulkan ==
  /\ pc = "init"
  /\ CreateSwapChain(NonZeroSizes)
  /\ resources' = {<<"device", 0>>}
  /\ pc' = "init_deps"
  /\ UNCHANGED <<ret, m_currentFrame, imageIndex, result, tickLog>>
  /\ UNCHANGED <<syncVars, acquiring, queue, presents, slotVars, winVars, m_oldSwapChain>>
  /\ UNCHANGED asideVars

\* fenceInfo.flags = VK_FENCE_CREATE_SIGNALED_BIT
FenceCreateSignaled_Unsignaled == FALSE
FenceCreateSignaled == TRUE

\* the rest of InitVulkan: the dependents of the swapchain, the model, the
\* uniform buffers, the pools and, last, CreateSyncObjects
CreateSyncObjects ==
  /\ pc = "init_deps"
  /\ CreateDependents
  /\ resources' = resources \cup InitResources
  /\ m_inFlightFences' = [s \in Slots |-> FenceCreateSignaled]
  /\ pc' = "poll"
  /\ UNCHANGED <<ret, m_currentFrame, imageIndex, result, tickLog>>
  /\ caps' = NoCaps
  /\ createInfo' = NoCreateInfo
  /\ UNCHANGED <<m_imageAvailableSemaphores, m_renderFinishedSemaphores, gpuVars, slotVars, winVars>>
  /\ UNCHANGED <<m_swapChain, m_oldSwapChain, m_swapChainExtent, numImages, gen>>
  /\ UNCHANGED asideVars

\* ------------------------------------------------------------- MainLoop
\* glfwPollEvents: the pending window events are dispatched (no callback is
\* registered, so a resize notification changes nothing in the program) and
\* the next frame tick starts
PollEvents ==
  /\ pc = "poll"
  /\ pc' = "wait"
  /\ tickLog' = <<>>
  /\ result' = "NONE"
  /\ imageIndex' = NoImage
  /\ resize' = IF resize = "queued" THEN "dispatched" ELSE "none"
  /\ UNCHANGED <<ret, m_currentFrame, width, height, platformFixed>>
  /\ UNCHANGED <<syncVars, gpuVars, slotVars, chainVars>>
  /\ UNCHANGED resources
  /\ UNCHANGED asideVars

\* ------------------------------------------------------------ DrawFrame
\* vkWaitForFences(.., &m_inFlightFences[m_currentFrame], VK_TRUE, UINT64_MAX)
FenceWaitPasses_NoWait(s) == TRUE
FenceWaitPasses(s) == m_inFlightFences[s]

WaitForFences ==
  /\ pc = "wait"
  /\ FenceWaitPasses(m_currentFrame)
  /\ pc' = "acquire"
  /\ tickLog' = Append(tickLog, "wait")
  /\ UNCHANGED <<ret, m_currentFrame, imageIndex, result>>
  /\ UNCHANGED <<syncVars, gpuVars, slotVars, winVars, chainVars>>
  /\ UNCHANGED resources
  /\ UNCHANGED asideVars

\* the results of vkAcquireNextImageKHR on which DrawFrame recreates and returns
AcquireAborts(r) == r = "OUT_OF_DATE"

\* where DrawFrame continues after the RecreateSwapChain of a failed acquire
AfterAcquireRecreate_NoReturn == "reset"
AfterAcquireRecreate_Advance == "advance"
AfterAcquireRecreate == "poll"

AcquireResults == {"SUCCESS", "SUBOPTIMAL", "OUT_OF_DATE"}

\* vkAcquireNextImageKHR(.., m_imageAvailableSemaphores[m_currentFrame], VK_NULL_HANDLE, &imageIndex)
\* and the test of its result.  The call blocks until the swapchain has a
\* free image; free images are interchangeable and the one of lowest index
\* is returned.
AcquireNextImage ==
  /\ pc = "acquire"
  /\ \E r \in AcquireResults :
       /\ result' = r
       /\ r = "OUT_OF_DATE" => gen < MaxGen
       /\ IF r \in {"SUCCESS", "SUBOPTIMAL"}
          THEN \E k \in DOMAIN imgState :
                 /\ imgState[k] = "free"
                 /\ \A j \in 0 .. (k - 1) : imgState[j] # "free"
                 /\ imageIndex' = k
                 /\ imgState' = [imgState EXCEPT ![k] = "acquiring"]
                 /\ acquiring' = acquiring \cup {[sem |-> m_currentFrame, image |-> k, chain |-> m_swapChain]}
          ELSE UNCHANGED <<imageIndex, imgState, acquiring>>
       /\ IF AcquireAborts(r)
          THEN /\ pc' = "rc_size"
               /\ ret' = AfterAcquireRecreate
               /\ width' = 0
               /\ height' = 0
               /\ tickLog' = tickLog \o <<"acquire", "recreate">>
          ELSE /\ pc' = "reset"
               /\ tickLog' = Append(tickLog, "acquire")
               /\ UNCHANGED <<ret, width, height>>
  /\ UNCHANGED <<m_currentFrame, platformFixed, resize>>
  /\ UNCHANGED <<syncVars, queue, presents, slotVars, chainVars>>
  /\ UNCHANGED resources
  /\ UNCHANGED asideVars

\* vkResetFences(.., &m_inFlightFences[m_currentFrame])
ResetFences ==
  /\ pc = "reset"
  /\ m_inFlightFences' = [m_inFlightFences EXCEPT ![m_currentFrame] = FALSE]
  /\ pc' = "update"
  /\ tickLog' = Append(tickLog, "reset_fence")
  /\ result' = "NONE"
  /\ UNCHANGED <<ret, m_currentFrame, imageIndex>>
  /\ UNCHANGED <<m_imageAvailableSemaphores, m_renderFinishedSemaphores>>
  /\ UNCHANGED <<gpuVars, slotVars, winVars, chainVars>>
  /\ UNCHANGED resources
  /\ UNCHANGED asideVars

\* UpdateUniformBuffers(m_currentFrame): the transforms are rebuilt and
\* copied into the uniform buffer of the slot
UpdateUniformBuffers ==
  /\ pc = "update"
  /\ m_uniformBuffers' = [m_uniformBuffers EXCEPT ![m_currentFrame] = "written"]
  /\ pc' = "record"
  /\ tickLog' = Append(tickLog, "update_ubo")
  /\ UNCHANGED <<ret, m_currentFrame, imageIndex, result, m_commandBuffers>>
  /\ UNCHANGED <<syncVars, gpuVars, winVars, chainVars>>
  /\ UNCHANGED resources
  /\ UNCHANGED asideVars

\* renderPassInfo.renderArea.extent
RenderArea == m_swapChainExtent

\* vkResetCommandBuffer + RecordCommandBuffer(m_commandBuffers[m_currentFrame], imageIndex)
RecordCommandBuffer ==
  /\ pc = "record"
  /\ m_commandBuffers' = [m_commandBuffers EXCEPT ![m_currentFrame] =
                                                [image |-> imageIndex, descriptorSet |-> m_currentFrame,
                                                 renderArea |-> RenderArea]]
  /\ pc' = "submit"
  /\ tickLog' = Append(tickLog, "record")
  /\ UNCHANGED <<ret, m_currentFrame, imageIndex, result, m_uniformBuffers>>
  /\ UNCHANGED <<syncVars, gpuVars, winVars, chainVars>>
  /\ UNCHANGED resources
  /\ UNCHANGED asideVars

\* the VkSubmitInfo DrawFrame fills in for slot s
SubmitInfo_NoWait(s) ==
  [slot |-> s, waitSem |-> NoSem, waitStage |-> "COLOR_ATTACHMENT_OUTPUT",
   cmd |-> s, signalSem |-> s, fence |-> s]
SubmitInfo(s) ==
  [slot |-> s, waitSem |-> s, waitStage |-> "COLOR_ATTACHMENT_OUTPUT",
   cmd |-> s, signalSem |-> s, fence |-> s]

\* vkQueueSubmit(m_graphicsQueue, 1, &submitInfo, m_inFlightFences[m_currentFrame])
QueueSubmit ==
  /\ pc = "submit"
  /\ LET si == SubmitInfo(m_currentFrame)
     IN queue' = Append(queue, [slot |-> si.slot, waitSem |-> si.waitSem, signalSem |-> si.signalSem,
                                fence |-> si.fence, image |-> m_commandBuffers[si.cmd].image,
                                chain |-> m_swapChain, stage |-> "queued"])
  /\ pc' = "present"
  /\ tickLog' = Append(tickLog, "submit")
  /\ UNCHANGED <<ret, m_currentFrame, imageIndex, result>>
  /\ UNCHANGED <<syncVars, acquiring, presents, imgState, slotVars, winVars, chainVars>>
  /\ UNCHANGED resources
  /\ UNCHANGED asideVars

\* the semaphore the VkPresentInfoKHR of slot s waits on (signalSemaphores)
PresentWaitSem_First(s) == 0
PresentWaitSem(s) == s

\* the results of vkQueuePresentKHR on which DrawFrame recreates the swapchain
PresentRecreates_OnlyOutOfDate(r) == r = "OUT_OF_DATE"
PresentRecreates(r) == r = "OUT_OF_DATE" \/ r = "SUBOPTIMAL"

PresentResults == {"SUCCESS", "SUBOPTIMAL", "OUT_OF_DATE"}

\* vkQueuePresentKHR(m_presentQueue, &presentInfo) and the test of its result
QueuePresent ==
  /\ pc = "present"
  /\ \E r \in PresentResults :
       /\ result' = r
       /\ r # "SUCCESS" => gen < MaxGen
       /\ presents' = Append(presents, [waitSem |-> PresentWaitSem(m_currentFrame),
                                        image |-> imageIndex, chain |-> m_swapChain])
       /\ IF PresentRecreates(r)
          THEN /\ pc' = "rc_size"
               /\ ret' = "advance"
               /\ width' = 0
               /\ height' = 0
               /\ tickLog' = tickLog \o <<"present", "recreate">>
          ELSE /\ pc' = "advance"
               /\ tickLog' = Append(tickLog, "present")
               /\ UNCHANGED <<ret, width, height>>
  /\ UNCHANGED <<m_currentFrame, imageIndex, platformFixed, resize>>
  /\ UNCHANGED <<syncVars, acquiring, queue, imgState, slotVars, chainVars>>
  /\ UNCHANGED resources
  /\ UNCHANGED asideVars

\* m_currentFrame = (m_currentFrame + 1) % MAX_FRAMES_IN_FLIGHT
AdvanceFrame ==
  /\ pc = "advance"
  /\ m_currentFrame' = (m_currentFrame + 1) % MAX_FRAMES_IN_FLIGHT
  /\ pc' = "poll"
  /\ tickLog' = Append(tickLog, "advance")
  /\ UNCHANGED <<ret, imageIndex, result>>
  /\ UNCHANGED <<syncVars, gpuVars, slotVars, winVars, chainVars>>
  /\ UNCHANGED resources
  /\ UNCHANGED asideVars

\* ---------------------------------------------------- RecreateSwapChain
\* the loop test of RecreateSwapChain: true when the loop goes round again
SizeLoopContinues(w, h) == w = 0 \/ h = 0

\* one iteration of the wait loop: glfwGetFramebufferSize(m_window, &width,
\* &height), then glfwWaitEvents(), which returns once an event was processed,
\* then the loop test on width and height.  An iteration that goes round
\* again leaves nothing behind: the next one overwrites width and height.
SizeLoop ==
  /\ pc = "rc_size"
  /\ \E win \in Sizes :
       IF SizeLoopContinues(win[1], win[2])
       THEN UNCHANGED <<pc, width, height, tickLog>>
       ELSE /\ width' = win[1]
            /\ height' = win[2]
            /\ pc' = "rc_idle"
            /\ tickLog' = Append(tickLog, "nonzero")
  /\ resize' = IF resize = "queued" THEN "dispatched" ELSE resize
  /\ UNCHANGED <<ret, m_currentFrame, imageIndex, result, platformFixed>>
  /\ UNCHANGED <<syncVars, gpuVars, slotVars, chainVars>>
  /\ UNCHANGED resources
  /\ UNCHANGED asideVars

\* vkDeviceWaitIdle(m_device) returns when every queue operation submitted to
\* the graphics queue and to the present queue has executed (the semaphore
\* wait of a present request is a queue operation)
DeviceIdle_NoWait == TRUE
DeviceIdle == queue = <<>> /\ presents = <<>>

\* vkDeviceWaitIdle; m_oldSwapChain = m_swapChain
DeviceWaitIdle ==
  /\ pc = "rc_idle"
  /\ DeviceIdle
  /\ m_oldSwapChain' = m_swapChain
  /\ pc' = "rc_cleanup"
  /\ tickLog' = Append(tickLog, "idle")
  /\ UNCHANGED <<ret, m_currentFrame, imageIndex, result>>
  /\ UNCHANGED <<syncVars, gpuVars, slotVars, winVars>>
  /\ UNCHANGED <<caps, createInfo, m_swapChain, m_swapChainExtent, numImages, gen, live, extentOf>>
  /\ UNCHANGED resources
  /\ UNCHANGED asideVars

\* CleanUpSwapChain() called from RecreateSwapChain
RecreateCleanUp ==
  /\ pc = "rc_cleanup"
  /\ CleanUpSwapChain
  /\ pc' = "rc_create"
  /\ tickLog' = Append(tickLog, "cleanup")
  /\ UNCHANGED <<ret, m_currentFrame, imageIndex, result>>
  /\ UNCHANGED <<syncVars, gpuVars, slotVars, winVars>>
  /\ UNCHANGED <<caps, createInfo, m_swapChain, m_oldSwapChain, m_swapChainExtent, numImages, gen>>
  /\ UNCHANGED asideVars

\* CreateSwapChain() called from RecreateSwapChain
RecreateCreate ==
  /\ pc = "rc_create"
  /\ CreateSwapChain(Sizes)
  /\ pc' = "rc_deps"
  /\ tickLog' = Append(tickLog, "create")
  /\ UNCHANGED <<ret, m_currentFrame, imageIndex, result>>
  /\ UNCHANGED <<syncVars, acquiring, queue, presents, slotVars, winVars, m_oldSwapChain>>
  /\ UNCHANGED resources
  /\ UNCHANGED asideVars

\* CreateRenderPass() .. CreateFrameBuffers(); m_oldSwapChain = nullptr; return
RecreateDependents ==
  /\ pc = "rc_deps"
  /\ CreateDependents
  /\ m_oldSwapChain' = VK_NULL_HANDLE
  /\ pc' = ret
  /\ tickLog' = Append(tickLog, "rebuild")
  /\ width' = 0
  /\ height' = 0
  /\ UNCHANGED <<ret, m_currentFrame, imageIndex, result, platformFixed, resize>>
  /\ caps' = NoCaps
  /\ createInfo' = NoCreateInfo
  /\ UNCHANGED <<syncVars, gpuVars, slotVars>>
  /\ UNCHANGED <<m_swapChain, m_swapChainExtent, numImages, gen>>
  /\ UNCHANGED resources
  /\ UNCHANGED asideVars

\* ------------------------------------------------ MainLoop exit, CleanUp
\* glfwWindowShouldClose(m_window) is true at the loop test: MainLoop leaves
\* the loop (the locals of the last DrawFrame are gone)
WindowShouldClose ==
  /\ pc = "poll"
  /\ pc' = "exit_idle"
  /\ tickLog' = <<>>
  /\ result' = "NONE"
  /\ imageIndex' = NoImage
  /\ UNCHANGED <<ret, m_currentFrame, width, height, platformFixed, resize, resources>>
  /\ UNCHANGED <<syncVars, gpuVars, slotVars, chainVars>>
  /\ UNCHANGED asideVars

\* vkDeviceWaitIdle(m_device) at the end of MainLoop
MainLoopWaitIdle ==
  /\ pc = "exit_idle"
  /\ DeviceIdle
  /\ pc' = "cleanup"
  /\ UNCHANGED <<ret, m_currentFrame, imageIndex, result, tickLog, resources>>
  /\ UNCHANGED <<syncVars, gpuVars, slotVars, winVars, chainVars>>
  /\ UNCHANGED asideVars

\* HelloTriangleApplication::CleanUp, its call of CleanUpSwapChain
CleanUpCallsCleanUpSwapChain ==
  /\ pc = "cleanup"
  /\ CleanUpSwapChain
  /\ pc' = "cleanup_objects"
  /\ UNCHANGED <<ret, m_currentFrame, imageIndex, result, tickLog>>
  /\ UNCHANGED <<syncVars, gpuVars, slotVars, winVars>>
  /\ UNCHANGED <<caps, createInfo, m_swapChain, m_oldSwapChain, m_swapChainExtent, numImages, gen>>
  /\ UNCHANGED asideVars

\* CleanUp: sampler, descriptor set layout and pool, uniform buffers,
\* semaphores and fences, command pool
CleanUpObjects ==
  /\ pc = "cleanup_objects"
  /\ resources' = {o \in resources : o[1] \notin CleanUpDestroys}
  /\ pc' = "destroy_device"
  /\ UNCHANGED <<ret, m_currentFrame, imageIndex, result, tickLog>>
  /\ UNCHANGED <<syncVars, gpuVars, slotVars, winVars, chainVars>>
  /\ UNCHANGED asideVars

\* CleanUp: vkDestroyDevice(m_device, nullptr)
DestroyDevice ==
  /\ pc = "destroy_device"
  /\ resources' = resources \ {<<"device", 0>>}
  /\ pc' = "done"
  /\ UNCHANGED <<ret, m_currentFrame, imageIndex, result, tickLog>>
  /\ UNCHANGED <<syncVars, gpuVars, slotVars, winVars, chainVars>>
  /\ UNCHANGED asideVars

\* ------------------------------------------- GPU and presentation engine
\* an image of swapchain c is an image of the current swapchain
Current(c, k) == c = m_swapChain /\ k \in DOMAIN imgState

\* the presentation engine releases an acquired image: the acquire's
\* semaphore signal operation executes
ImageReady ==
  /\ \E a \in acquiring :
       /\ acquiring' = acquiring \ {a}
       /\ m_imageAvailableSemaphores' = [m_imageAvailableSemaphores EXCEPT ![a.sem] = "signaled"]
       /\ imgState' = IF Current(a.chain, a.image)
                      THEN [imgState EXCEPT ![a.image] = "acquired"] ELSE imgState
  /\ UNCHANGED <<cpuVars, m_inFlightFences, m_renderFinishedSemaphores, queue, presents>>
  /\ UNCHANGED <<slotVars, winVars, chainVars>>
  /\ UNCHANGED resources
  /\ UNCHANGED asideVars

\* a submitted command buffer reaches the colour-attachment-output stage:
\* the semaphore wait of its submit has to be satisfied first
GpuBeginColour ==
  /\ \E i \in 1 .. Len(queue) :
       LET e == queue[i] IN
       /\ e.stage = "queued"
       /\ \A j \in 1 .. (i - 1) : queue[j].stage = "colour"
       /\ e.waitSem # NoSem => m_imageAvailableSemaphores[e.waitSem] = "signaled"
       /\ m_imageAvailableSemaphores' =
            IF e.waitSem # NoSem
            THEN [m_imageAvailableSemaphores EXCEPT ![e.waitSem] = "unsignaled"]
            ELSE m_imageAvailableSemaphores
       /\ queue' = [queue EXCEPT ![i].stage = "colour"]
       /\ imgState' = IF Current(e.chain, e.image)
                      THEN [imgState EXCEPT ![e.image] = "rendering"] ELSE imgState
  /\ UNCHANGED <<cpuVars, m_inFlightFences, m_renderFinishedSemaphores, acquiring, presents>>
  /\ UNCHANGED <<slotVars, winVars, chainVars>>
  /\ UNCHANGED resources
  /\ UNCHANGED asideVars

\* the oldest submission completes: its semaphore and its fence are signaled
GpuComplete ==
  /\ queue # <<>>
  /\ LET e == Head(queue) IN
       /\ e.stage = "colour"
       /\ queue' = Tail(queue)
       /\ m_renderFinishedSemaphores' = [m_renderFinishedSemaphores EXCEPT ![e.signalSem] = "signaled"]
       /\ m_inFlightFences' = [m_inFlightFences EXCEPT ![e.fence] = TRUE]
       /\ imgState' = IF Current(e.chain, e.image)
                      THEN [imgState EXCEPT ![e.image] = "rendered"] ELSE imgState
  /\ UNCHANGED <<cpuVars, m_imageAvailableSemaphores, acquiring, presents>>
  /\ UNCHANGED <<slotVars, winVars, chainVars>>
  /\ UNCHANGED resources
  /\ UNCHANGED asideVars

\* the presentation engine executes the oldest present request once its
\* semaphore wait is satisfied; the image goes back to the swapchain
PresentExecute ==
  /\ presents # <<>>
  /\ LET p == Head(presents) IN
       /\ p.waitSem # NoSem => m_renderFinishedSemaphores[p.waitSem] = "signaled"
       /\ m_renderFinishedSemaphores' =
            IF p.waitSem # NoSem
            THEN [m_renderFinishedSemaphores EXCEPT ![p.waitSem] = "unsignaled"]
            ELSE m_renderFinishedSemaphores
       /\ presents' = Tail(presents)
       /\ imgState' = IF Current(p.chain, p.image)
                      THEN [imgState EXCEPT ![p.image] = "free"] ELSE imgState
  /\ UNCHANGED <<cpuVars, m_inFlightFences, m_imageAvailableSemaphores, acquiring, queue>>
  /\ UNCHANGED <<slotVars, winVars, chainVars>>
  /\ UNCHANGED resources
  /\ UNCHANGED asideVars

\* ------------------------------------------------------------------ Next
Next ==
  \/ InitVulkan
  \/ CreateSyncObjects
  \/ PollEvents
  \/ WaitForFences
  \/ AcquireNextImage
  \/ ResetFences
  \/ UpdateUniformBuffers
  \/ RecordCommandBuffer
  \/ QueueSubmit
  \/ QueuePresent
  \/ AdvanceFrame
  \/ SizeLoop
  \/ DeviceWaitIdle
  \/ RecreateCleanUp
  \/ RecreateCreate
  \/ RecreateDependents
  \/ WindowShouldClose
  \/ MainLoopWaitIdle
  \/ CleanUpCallsCleanUpSwapChain
  \/ CleanUpObjects
  \/ DestroyDevice
  \/ ImageReady
  \/ GpuBeginColour
  \/ GpuComplete
  \/ PresentExecute

Spec == Init /\ [][Next]_vars

\* the program on a device that executes what is submitted to it: the
\* presentation engine releases every image acquired, a submitted command
\* buffer whose semaphore wait is satisfied starts and one that has started
\* completes, a queued present is executed, and vkWaitForFences returns
\* once the fence is signaled
SpecFair ==
  /\ Spec
  /\ WF_vars(ImageReady)
  /\ WF_vars(GpuBeginColour)
  /\ WF_vars(GpuComplete)
  /\ WF_vars(PresentExecute)
  /\ WF_vars(WaitForFences)

\* --------------------------------------------------- resize notifications
\* while MainLoop runs, the window system queues a framebuffer-resize event
\* for the window; the next glfwPollEvents or glfwWaitEvents dispatches it
FramebufferResized ==
  /\ pc \notin {"init", "init_deps", "cleanup", "cleanup_objects", "destroy_device", "done"}
  /\ resize # "queued"
  /\ resize' = "queued"
  /\ UNCHANGED <<cpuVars, syncVars, gpuVars, slotVars, width, height, platformFixed>>
  /\ UNCHANGED <<chainVars, resources>>
  /\ UNCHANGED asideVars

NextResize ==
  \/ Next
  \/ FramebufferResized

\* the program with the resize notifications of its window
SpecResize == Init /\ [][NextResize]_vars

\* ------------------------------------------------------ failed acquisition
\* results of vkAcquireNextImageKHR that report a failure other than
\* VK_ERROR_OUT_OF_DATE_KHR
AcquireFailures == {"ERROR_SURFACE_LOST", "ERROR_DEVICE_LOST"}

\* vkAcquireNextImageKHR fails: no image is acquired and the semaphore is
\* not signaled; the local imageIndex, which has no initialiser, holds an
\* indeterminate value (values that index no image are left out).  DrawFrame
\* compares the result with VK_ERROR_OUT_OF_DATE_KHR only and goes on.
AcquireFails ==
  /\ pc = "acquire"
  /\ \E r \in AcquireFailures : result' = r
  /\ \E k \in DOMAIN imgState : imageIndex' = k
  /\ IF AcquireAborts(result')
     THEN pc' = "rc_size" /\ ret' = AfterAcquireRecreate
     ELSE pc' = "reset" /\ ret' = ret
  /\ tickLog' = Append(tickLog, "acquire_failed")
  /\ UNCHANGED <<m_currentFrame>>
  /\ UNCHANGED <<syncVars, gpuVars, slotVars, winVars, chainVars, resources>>
  /\ UNCHANGED asideVars

NextFail ==
  \/ Next
  \/ AcquireFails

\* the program on a device whose image acquisition can fail
SpecFail == Init /\ [][NextFail]_vars

\* ------------------------------ swapchain creation on a surface held fixed
\* what vkGetPhysicalDeviceSurfaceFormatsKHR and ..PresentModesKHR can report
SurfaceFormats ==
  {[format |-> "B8G8R8A8_SRGB", colorSpace |-> "SRGB_NONLINEAR"],
   [format |-> "B8G8R8A8_SRGB", colorSpace |-> "EXTENDED_SRGB_LINEAR"],
   [format |-> "R8G8B8A8_UNORM", colorSpace |-> "SRGB_NONLINEAR"]}
PresentModes == {"IMMEDIATE", "MAILBOX", "FIFO"}

\* the non-empty lists over S of at most n entries (PickPhysicalDevice
\* rejects a device whose surface reports no format or no present mode)
ListsUpTo(S, n) == UNION {[1 .. k -> S] : k \in 1 .. n}

\* HelloTriangleApplication::ChooseSwapSurfaceFormat
ChooseSwapSurfaceFormat_FormatOnly(available_formats) ==
  LET preferred == {i \in 1 .. Len(available_formats) :
                      available_formats[i].format = "B8G8R8A8_SRGB"}
  IN IF preferred # {}
     THEN available_formats[CHOOSE i \in preferred : \A j \in preferred : i <= j]
     ELSE available_formats[1]
ChooseSwapSurfaceFormat(available_formats) ==
  LET preferred == {i \in 1 .. Len(available_formats) :
                      /\ available_formats[i].format = "B8G8R8A8_SRGB"
                      /\ available_formats[i].colorSpace = "SRGB_NONLINEAR"}
  IN IF preferred # {}
     THEN available_formats[CHOOSE i \in preferred : \A j \in preferred : i <= j]
     ELSE available_formats[1]

\* HelloTriangleApplication::ChooseSwapPresentMode
ChooseSwapPresentMode_Toggle(available_present_modes) ==
  IF presentMode = "MAILBOX" THEN "FIFO"
  ELSE IF \E i \in 1 .. Len(available_present_modes) : available_present_modes[i] = "MAILBOX"
       THEN "MAILBOX" ELSE "FIFO"
ChooseSwapPresentMode_First(available_present_modes) ==
  IF Len(available_present_modes) > 0 /\ available_present_modes[1] = "MAILBOX"
  THEN "MAILBOX" ELSE "FIFO"
ChooseSwapPresentMode(available_present_modes) ==
  IF \E i \in 1 .. Len(available_present_modes) : available_present_modes[i] = "MAILBOX"
  THEN "MAILBOX" ELSE "FIFO"

\* the surface of a window that is not minimised
InitCreate ==
  /\ ProgramInit
  /\ \E w \in NonZeroSizes : \E c \in CapsOf(w, platformFixed) :
       \E f \in ListsUpTo(SurfaceFormats, MaxList) : \E m \in ListsUpTo(PresentModes, MaxList) :
         surface = [window |-> w, capabilities |-> c, formats |-> f, present_modes |-> m]
  /\ m_swapChainImageFormat = "UNDEFINED"
  /\ imageColorSpace = "NONE"
  /\ presentMode = "NONE"
  /\ MemUnused
  /\ WaitUnused
  /\ StagingUnused
  /\ ImagesUnused
  /\ UploadUnused
  /\ TransitionUnused
  /\ TransferUnused
  /\ TextureUnused

\* HelloTriangleApplication::CreateSwapChain with the answers of the surface
\* given: format, colour space, present mode, extent and image count of the
\* swapchain it creates
CreateSwapChainOn(sf) ==
  LET surfaceFormat == ChooseSwapSurfaceFormat(sf.formats)
      extent == ChooseSwapExtent(sf.capabilities, sf.window)
      imageCount == sf.capabilities.minImageCount + 1
  IN /\ m_swapChainImageFormat' = surfaceFormat.format
     /\ imageColorSpace' = surfaceFormat.colorSpace
     /\ presentMode' = ChooseSwapPresentMode(sf.present_modes)
     /\ m_swapChainExtent' = extent
     /\ numImages' = imageCount
     /\ gen' = gen + 1
     /\ m_swapChain' = gen + 1

\* InitVulkan's call of CreateSwapChain
CreateSwapChainCall ==
  /\ gen = 0
  /\ CreateSwapChainOn(surface)
  /\ UNCHANGED <<cpuVars, syncVars, gpuVars, slotVars, winVars, surface>>
  /\ UNCHANGED <<caps, createInfo, m_oldSwapChain, live, extentOf, resources>>
  /\ UNCHANGED <<memVars, transferVars, textureVars, transitionVars, uploadVars, imagesVars, stagingVars, waitVars>>

\* a whole call of RecreateSwapChain: the size loop ends at once (the window
\* is not minimised), the device becomes idle, CreateSwapChain reads the
\* surface
RecreateSwapChainCall ==
  /\ gen > 0
  /\ gen <= MaxRecreates
  /\ ~SizeLoopContinues(surface.window[1], surface.window[2])
  /\ CreateSwapChainOn(surface)
  /\ UNCHANGED <<cpuVars, syncVars, gpuVars, slotVars, winVars, surface>>
  /\ UNCHANGED <<caps, createInfo, m_oldSwapChain, live, extentOf, resources>>
  /\ UNCHANGED <<memVars, transferVars, textureVars, transitionVars, uploadVars, imagesVars, stagingVars, waitVars>>

NextCreate ==
  \/ CreateSwapChainCall
  \/ RecreateSwapChainCall

SpecCreate == InitCreate /\ [][NextCreate]_vars

\* ================================================================ claims
RecreatePcs == {"rc_size", "rc_idle", "rc_cleanup", "rc_create", "rc_deps"}

\* slot s has a submitted command buffer whose execution has not completed
InFlight(s) == \E i \in 1 .. Len(queue) : queue[i].slot = s

Last(s) == s[Len(s)]

\* C1: whenever DrawFrame is about to rewrite the uniform buffer or to reset
\* and re-record the command buffer of the current slot, the fence wait of
\* this tick has passed and no work submitted with that slot is executing.
C1_MutateAfterFence ==
  pc \in {"update", "record"} =>
    /\ tickLog[1] = "wait"
    /\ ~InFlight(m_currentFrame)

\* a slot used before is being re-recorded while the other slot's frame is
\* still executing
C1_Witness ==
  /\ pc = "record"
  /\ m_commandBuffers[m_currentFrame].image # NoImage
  /\ Len(queue) = 1

\* C2: at most MAX_FRAMES_IN_FLIGHT submitted command buffers are incomplete,
\* and no two of them belong to the same slot.
C2_AtMostKInFlight ==
  /\ Len(queue) <= MAX_FRAMES_IN_FLIGHT
  /\ \A i, j \in 1 .. Len(queue) : i # j => queue[i].slot # queue[j].slot

\* both slots in flight on a recreated swapchain
C2_Witness ==
  /\ Len(queue) = MAX_FRAMES_IN_FLIGHT
  /\ gen > 1

\* the acquire of this tick reported VK_ERROR_OUT_OF_DATE_KHR
AcquireOutOfDate == result = "OUT_OF_DATE" /\ "present" \notin Range(tickLog)

\* C3: a tick whose acquire reports out-of-date calls RecreateSwapChain and
\* ends: no fence reset, no uniform update, no record, no submit, no present.
C3_AcquireOutOfDateAborts ==
  AcquireOutOfDate =>
    /\ Len(tickLog) >= 3
    /\ <<tickLog[1], tickLog[2], tickLog[3]>> = <<"wait", "acquire", "recreate">>
    /\ Range(tickLog) \cap {"reset_fence", "update_ubo", "record", "submit", "present", "advance"} = {}
    /\ m_inFlightFences[m_currentFrame]
    /\ pc \in RecreatePcs \cup {"poll"}
    /\ pc = "poll" => Last(tickLog) = "rebuild"

\* an aborted tick has ended
C3_Witness == AcquireOutOfDate /\ pc = "poll"

\* the present of this tick reported out-of-date or suboptimal
PresentStale == result \in {"OUT_OF_DATE", "SUBOPTIMAL"} /\ "present" \in Range(tickLog)

\* C4: when present reports out-of-date or suboptimal, RecreateSwapChain is
\* called in the same tick, after the submit, and the tick ends by advancing.
C4_PresentStaleRecreates ==
  PresentStale =>
    /\ 0 < Pos(tickLog, "submit")
    /\ Pos(tickLog, "present") = Pos(tickLog, "submit") + 1
    /\ Pos(tickLog, "recreate") = Pos(tickLog, "present") + 1
    /\ pc \in RecreatePcs \cup {"advance", "poll"}
    /\ pc = "poll" => Last(tickLog) = "advance" /\ tickLog[Len(tickLog) - 1] = "rebuild"

\* a tick whose present was suboptimal has recreated and advanced
C4_Witness == PresentStale /\ result = "SUBOPTIMAL" /\ pc = "poll"

\* C5: on the GPU, colour output to an image starts only once its acquisition
\* has completed, its presentation starts only once its rendering has
\* completed, and a fence becomes signaled only by the completion of the
\* submission of its slot.
C5_GpuOrdering ==
  [][ /\ m_swapChain' = m_swapChain =>
           \A k \in DOMAIN imgState :
             /\ (imgState[k] # "rendering" /\ imgState'[k] = "rendering") => imgState[k] = "acquired"
             /\ (imgState[k] # "free" /\ imgState'[k] = "free") => imgState[k] = "rendered"
      /\ \A s \in Slots :
           (pc \notin {"init", "init_deps"} /\ ~m_inFlightFences[s] /\ m_inFlightFences'[s]) =>
             /\ queue # <<>>
             /\ Head(queue).slot = s
             /\ Head(queue).stage = "colour"
             /\ queue' = Tail(queue)
             /\ m_renderFinishedSemaphores'[s] = "signaled"
    ]_vars

\* two frames have been acquired, rendered and presented
C5_Witness ==
  /\ pc = "poll"
  /\ \A s \in Slots : m_commandBuffers[s].image # NoImage
  /\ queue = <<>>
  /\ presents = <<>>
  /\ \A k \in DOMAIN imgState : imgState[k] = "free"

\* C6: inside RecreateSwapChain the previous swapchain is live while the new
\* one is created and its dependents are built.
C6_OldAliveUntilNewBuilt ==
  pc \in {"rc_create", "rc_deps"} => <<"swapchain", m_oldSwapChain>> \in live

\* C7: the create request of a Recreate carries the previous, live swapchain
\* as oldSwapchain; the create request at startup carries the null handle.
C7_OldSwapchainPassed ==
  /\ pc = "rc_deps" => createInfo.oldSwapchain = createInfo.previous /\ createInfo.previousLive
  /\ pc = "init_deps" => createInfo.oldSwapchain = VK_NULL_HANDLE

\* C8: RecreateSwapChain destroys or builds objects only after its size loop
\* has seen a non-zero extent and, after that, the device was idle; nothing
\* is destroyed while a submitted command buffer is incomplete.
C8_RecreateOrder ==
  [][ (pc \in RecreatePcs /\ live' # live) =>
        /\ width # 0 /\ height # 0
        /\ 0 < Pos(tickLog, "nonzero")
        /\ Pos(tickLog, "nonzero") < Pos(tickLog, "idle")
        /\ queue = <<>>
    ]_vars

\* the swapchain was destroyed in a Recreate called after this tick's submit
C8_Witness ==
  /\ pc = "rc_create"
  /\ "submit" \in Range(tickLog)
  /\ <<"swapchain", m_oldSwapChain>> \notin live

\* C9: a swapchain built by RecreateSwapChain never has a zero-area extent.
C9_RecreateExtentNonZero ==
  gen > 1 => m_swapChainExtent[1] > 0 /\ m_swapChainExtent[2] > 0

C11_OnlyCurrentLive ==
  (pc = "poll" /\ gen > 1) => \A o \in live : o[2] = m_swapChain

\* the objects that make up the frame slots
SlotObjects == {<<k, s>> : k \in SlotKinds, s \in Slots}

C18_NothingLiveAtDestroyDevice ==
  pc = "destroy_device" => live = {} /\ resources = {<<"device", 0>>}

\* C12: a tick whose glfwPollEvents dispatched a resize notification calls
\* RecreateSwapChain before it ends, whatever acquire and present report.
C12_ResizeRecreates ==
  (pc = "poll" /\ resize = "dispatched" /\ tickLog # <<>>) => "recreate" \in Range(tickLog)

programVars == <<cpuVars, syncVars, gpuVars, slotVars, winVars, chainVars, resources>>

\* VK_MEMORY_PROPERTY_DEVICE_LOCAL_BIT = 1, HOST_VISIBLE_BIT = 2,
\* HOST_COHERENT_BIT = 4
PropertyFlags == 0 .. 7

RECURSIVE BitAnd(_, _)
\* a & b on unsigned integers
BitAnd(a, b) ==
  IF a = 0 \/ b = 0 THEN 0
  ELSE (a % 2) * (b % 2) + 2 * BitAnd(a \div 2, b \div 2)

\* 1 << i
ShiftLeft1(i) == 2 ^ i

\* the condition of the if statement in the loop of FindMemoryType, for
\* memoryTypes[i]
Suitable(table, filter, flags, i) ==
  /\ BitAnd(filter, ShiftLeft1(i)) # 0
  /\ BitAnd(table[i + 1], flags) = flags

RECURSIVE FindMemoryTypeFrom(_, _, _, _)
\* the loop of FindMemoryType from index i on; NoMemoryType when the loop
\* ends without a return
FindMemoryTypeFrom(i, table, filter, flags) ==
  IF ~(i < Len(table)) THEN NoMemoryType
  ELSE IF Suitable(table, filter, flags, i) THEN i
  ELSE FindMemoryTypeFrom(i + 1, table, filter, flags)

\* FindMemoryType up to its assert(false)
FindMemoryType_Last(table, filter, flags) ==
  LET found == {i \in 0 .. (Len(table) - 1) : Suitable(table, filter, flags, i)}
  IN IF found = {} THEN NoMemoryType ELSE CHOOSE i \in found : \A j \in found : j <= i
FindMemoryType(table, filter, flags) == FindMemoryTypeFrom(0, table, filter, flags)

RECURSIVE TablesOfLen(_)
TablesOfLen(n) ==
  IF n = 0 THEN {<<>>}
  ELSE {Append(t, f) : t \in TablesOfLen(n - 1), f \in PropertyFlags}

\* a device reports 1..MaxMemTypes memory types; the requirements of a
\* resource name at least one of them
InitMem ==
  /\ ProgramInit
  /\ platformFixed = FALSE
  /\ SurfaceUnused
  /\ WaitUnused
  /\ StagingUnused
  /\ ImagesUnused
  /\ UploadUnused
  /\ TransitionUnused
  /\ TransferUnused
  /\ TextureUnused
  /\ NDEBUG \in BOOLEAN
  /\ \E n \in 1 .. MaxMemTypes :
       /\ memoryProperties \in TablesOfLen(n)
       /\ memoryTypeBits \in 1 .. (2 ^ n - 1)
  /\ pFlags \in PropertyFlags
  /\ bufferKind \in {"Buffer", "ImageBuffer"}
  /\ mpc = "create"
  /\ memoryTypeIndex = NoMemoryType
  /\ m_buffer = "null"
  /\ m_imageView = "null"
  /\ m_memory = "null"
  /\ allocatedType = NoMemoryType
  /\ bound = FALSE
  /\ releaseLog = <<>>

\* assert(vkCreateBuffer(...) == VK_SUCCESS) of CreateBuffer and
\* assert(vkCreateImage(...) == VK_SUCCESS) of CreateImageBuffer: with
\* NDEBUG the call is not part of the program
VkResults == {"VK_SUCCESS", "VK_ERROR_OUT_OF_DEVICE_MEMORY"}

\* the condition of assert(call == VK_SUCCESS); when it is false the assert
\* aborts the process
AssertPasses_Always(r) == TRUE
AssertPasses(r) == r = "VK_SUCCESS"

CreateBuffer ==
  /\ mpc = "create"
  /\ IF NDEBUG
     THEN m_buffer' = m_buffer /\ mpc' = "find"
     ELSE \E r \in VkResults :
            /\ m_buffer' = IF r = "VK_SUCCESS" THEN "live" ELSE "failed"
            /\ mpc' = IF AssertPasses(r) THEN "find" ELSE "aborted"
  /\ UNCHANGED <<NDEBUG, memoryProperties, memoryTypeBits, pFlags, bufferKind, memoryTypeIndex,
                 m_imageView, m_memory, allocatedType, bound, releaseLog>>
  /\ UNCHANGED <<programVars, surfaceVars, transferVars, textureVars, transitionVars, uploadVars, imagesVars, stagingVars, waitVars>>

\* FindMemoryType returns from its loop
FindMemoryTypeReturns ==
  /\ mpc = "find"
  /\ FindMemoryType(memoryProperties, memoryTypeBits, pFlags) # NoMemoryType
  /\ memoryTypeIndex' = FindMemoryType(memoryProperties, memoryTypeBits, pFlags)
  /\ mpc' = "allocate"
  /\ UNCHANGED <<NDEBUG, memoryProperties, memoryTypeBits, pFlags, bufferKind,
                 m_buffer, m_imageView, m_memory, allocatedType, bound, releaseLog>>
  /\ UNCHANGED <<programVars, surfaceVars, transferVars, textureVars, transitionVars, uploadVars, imagesVars, stagingVars, waitVars>>

\* FindMemoryType reaches assert(false) in a build without NDEBUG: the
\* process is aborted
FindMemoryTypeAsserts ==
  /\ mpc = "find"
  /\ FindMemoryType(memoryProperties, memoryTypeBits, pFlags) = NoMemoryType
  /\ ~NDEBUG
  /\ mpc' = "aborted"
  /\ UNCHANGED <<NDEBUG, memoryProperties, memoryTypeBits, pFlags, bufferKind, memoryTypeIndex,
                 m_buffer, m_imageView, m_memory, allocatedType, bound, releaseLog>>
  /\ UNCHANGED <<programVars, surfaceVars, transferVars, textureVars, transitionVars, uploadVars, imagesVars, stagingVars, waitVars>>

\* FindMemoryType reaches the end of its body in a build with NDEBUG: there
\* is no return statement, the caller reads an indeterminate value
FindMemoryTypeFallsOff ==
  /\ mpc = "find"
  /\ FindMemoryType(memoryProperties, memoryTypeBits, pFlags) = NoMemoryType
  /\ NDEBUG
  /\ memoryTypeIndex' \in 0 .. MaxMemTypes
  /\ mpc' = "allocate"
  /\ UNCHANGED <<NDEBUG, memoryProperties, memoryTypeBits, pFlags, bufferKind,
                 m_buffer, m_imageView, m_memory, allocatedType, bound, releaseLog>>
  /\ UNCHANGED <<programVars, surfaceVars, transferVars, textureVars, transitionVars, uploadVars, imagesVars, stagingVars, waitVars>>

\* assert(vkAllocateMemory(...) == VK_SUCCESS) of AllocateBindBuffer
AllocateMemory ==
  /\ mpc = "allocate"
  /\ allocatedType' = IF NDEBUG THEN allocatedType ELSE memoryTypeIndex
  /\ IF NDEBUG
     THEN m_memory' = m_memory /\ mpc' = "bind"
     ELSE \E r \in VkResults :
            /\ m_memory' = IF r = "VK_SUCCESS" THEN "live" ELSE "failed"
            /\ mpc' = IF AssertPasses(r) THEN "bind" ELSE "aborted"
  /\ UNCHANGED <<NDEBUG, memoryProperties, memoryTypeBits, pFlags, bufferKind, memoryTypeIndex,
                 m_buffer, m_imageView, bound, releaseLog>>
  /\ UNCHANGED <<programVars, surfaceVars, transferVars, textureVars, transitionVars, uploadVars, imagesVars, stagingVars, waitVars>>

\* bindFunction(device, buffer, memory, 0) of AllocateBindBuffer
BindMemory ==
  /\ mpc = "bind"
  /\ bound' = TRUE
  /\ mpc' = IF bufferKind = "ImageBuffer" THEN "view" ELSE "ready"
  /\ UNCHANGED <<NDEBUG, memoryProperties, memoryTypeBits, pFlags, bufferKind, memoryTypeIndex,
                 m_buffer, m_imageView, m_memory, allocatedType, releaseLog>>
  /\ UNCHANGED <<programVars, surfaceVars, transferVars, textureVars, transitionVars, uploadVars, imagesVars, stagingVars, waitVars>>

\* assert(vkCreateImageView(...) == VK_SUCCESS) of ImageBuffer::CreateImageViews
CreateImageViews ==
  /\ mpc = "view"
  /\ IF NDEBUG
     THEN m_imageView' = m_imageView /\ mpc' = "ready"
     ELSE \E r \in VkResults :
            /\ m_imageView' = IF r = "VK_SUCCESS" THEN "live" ELSE "failed"
            /\ mpc' = IF AssertPasses(r) THEN "ready" ELSE "aborted"
  /\ UNCHANGED <<NDEBUG, memoryProperties, memoryTypeBits, pFlags, bufferKind, memoryTypeIndex,
                 m_buffer, m_memory, allocatedType, bound, releaseLog>>
  /\ UNCHANGED <<programVars, surfaceVars, transferVars, textureVars, transitionVars, uploadVars, imagesVars, stagingVars, waitVars>>

\* the calls of Buffer::CleanUp and of ImageBuffer::CleanUp, in order
CleanUpCalls(kind) ==
  IF kind = "Buffer" THEN <<"vkDestroyBuffer", "vkFreeMemory">>
  ELSE <<"vkDestroyImageView", "vkDestroyImage">>

\* the next call of CleanUp
CleanUpStep ==
  /\ mpc = "ready"
  /\ LET call == CleanUpCalls(bufferKind)[Len(releaseLog) + 1]
     IN /\ releaseLog' = Append(releaseLog, call)
        /\ m_buffer' = IF call \in {"vkDestroyBuffer", "vkDestroyImage"} /\ m_buffer = "live"
                       THEN "destroyed" ELSE m_buffer
        /\ m_imageView' = IF call = "vkDestroyImageView" /\ m_imageView = "live"
                          THEN "destroyed" ELSE m_imageView
        /\ m_memory' = IF call = "vkFreeMemory" /\ m_memory = "live" THEN "freed" ELSE m_memory
  /\ mpc' = IF Len(releaseLog) + 1 = Len(CleanUpCalls(bufferKind)) THEN "cleaned" ELSE "ready"
  /\ UNCHANGED <<NDEBUG, memoryProperties, memoryTypeBits, pFlags, bufferKind, memoryTypeIndex,
                 allocatedType, bound>>
  /\ UNCHANGED <<programVars, surfaceVars, transferVars, textureVars, transitionVars, uploadVars, imagesVars, stagingVars, waitVars>>

NextMem ==
  \/ CreateBuffer
  \/ FindMemoryTypeReturns
  \/ FindMemoryTypeAsserts
  \/ FindMemoryTypeFallsOff
  \/ AllocateMemory
  \/ BindMemory
  \/ CreateImageViews
  \/ CleanUpStep

SpecMem == InitMem /\ [][NextMem]_vars

\* memory types FindMemoryType may choose among: bit i of the filter is set
\* and the type has every requested property
MatchingTypes ==
  {i \in 0 .. (Len(memoryProperties) - 1) :
     /\ (memoryTypeBits \div (2 ^ i)) % 2 = 1
     /\ \A b \in {1, 2, 4} : (pFlags \div b) % 2 = 1 => (memoryProperties[i + 1] \div b) % 2 = 1}

\* C15: when some memory type has its bit set in the filter and has all the
\* requested properties, FindMemoryType returns the smallest index of such a
\* type, and the allocation is made with that index.
C15_SmallestMatchingType ==
  (mpc \in {"allocate", "bind", "view", "ready", "cleaned"} /\ MatchingTypes # {}) =>
     /\ memoryTypeIndex \in MatchingTypes
     /\ \A j \in MatchingTypes : memoryTypeIndex <= j
     /\ (m_memory # "null" => allocatedType = memoryTypeIndex)

\* two types match, the lower one is allocated from
C15_Witness ==
  /\ mpc = "bind"
  /\ Cardinality(MatchingTypes) >= 2
  /\ memoryTypeIndex = 0
  /\ m_memory = "live"
  /\ pFlags = 6

\* C16: when no memory type matches, the process is terminated inside
\* FindMemoryType: nothing is allocated, nothing is bound, no later step
\* is taken.
C16_NoMatchIsFatal ==
  (mpc \notin {"create", "find"} /\ MatchingTypes = {}) =>
     /\ mpc = "aborted"
     /\ m_memory = "null"
     /\ ~bound

\* C17: CleanUp of a Buffer or ImageBuffer made by a build without NDEBUG
\* destroys the view, then the buffer or image, then frees the memory, and
\* leaves none of them.
C17_CleanUpReleasesAll ==
  (mpc = "cleaned" /\ ~NDEBUG) =>
     /\ m_buffer = "destroyed"
     /\ m_memory = "freed"
     /\ (bufferKind = "ImageBuffer" => m_imageView = "destroyed")
     /\ \A i \in 1 .. Len(releaseLog) :
          /\ releaseLog[i] = "vkDestroyImageView" => i = 1
          /\ releaseLog[i] = "vkFreeMemory" => i = Len(releaseLog)


\* ---------------------------------------------------------------------
\* Transfer calls: Buffer::CopyBuffer and ImageBuffer::CopyBuffer2Image
\* between BeginSingleTimeCommands and EndSingleTimeCommands
\* ---------------------------------------------------------------------

InitTransfer ==
  /\ ProgramInit
  /\ platformFixed = FALSE
  /\ SurfaceUnused
  /\ WaitUnused
  /\ StagingUnused
  /\ ImagesUnused
  /\ UploadUnused
  /\ TransitionUnused
  /\ MemUnused
  /\ TextureUnused
  /\ transferCall = "none"
  /\ tpc = "idle"
  /\ callCount = 0
  /\ commandBuffer = NoCommandBuffer
  /\ poolAllocated = 0
  /\ m_graphicsQueue = <<>>
  /\ executed = <<>>
  /\ callLog = <<>>

\* the copy command each transfer call records
CopyCommand(call) ==
  IF call = "CopyBuffer" THEN "vkCmdCopyBuffer" ELSE "vkCmdCopyBufferToImage"

\* a transfer call is entered and calls BeginSingleTimeCommands:
\* vkAllocateCommandBuffers of one primary buffer from m_commandPool, then
\* vkBeginCommandBuffer with ONE_TIME_SUBMIT
BeginSingleTimeCommands ==
  /\ tpc = "idle"
  /\ callCount < MaxTransfers
  /\ \E call \in {"CopyBuffer", "CopyBuffer2Image"} : transferCall' = call
  /\ callCount' = callCount + 1
  /\ poolAllocated' = poolAllocated + 1
  /\ commandBuffer' = [state |-> "recording", flags |-> "ONE_TIME_SUBMIT", commands |-> <<>>,
                       call |-> callCount + 1]
  /\ callLog' = <<"vkAllocateCommandBuffers", "vkBeginCommandBuffer">>
  /\ tpc' = "record"
  /\ UNCHANGED <<m_graphicsQueue, executed>>
  /\ UNCHANGED <<programVars, surfaceVars, memVars, textureVars, transitionVars, uploadVars, imagesVars, stagingVars, waitVars>>

\* vkCmdCopyBuffer of CopyBuffer, vkCmdCopyBufferToImage of CopyBuffer2Image
RecordCopy ==
  /\ tpc = "record"
  /\ commandBuffer' = [commandBuffer EXCEPT !.commands = Append(@, CopyCommand(transferCall))]
  /\ callLog' = Append(callLog, CopyCommand(transferCall))
  /\ tpc' = "end"
  /\ UNCHANGED <<transferCall, callCount, poolAllocated, m_graphicsQueue, executed>>
  /\ UNCHANGED <<programVars, surfaceVars, memVars, textureVars, transitionVars, uploadVars, imagesVars, stagingVars, waitVars>>

\* EndSingleTimeCommands up to its wait: vkEndCommandBuffer, then vkQueueSubmit
\* of the one command buffer to m_graphicsQueue without a fence
EndAndSubmit ==
  /\ tpc = "end"
  /\ commandBuffer' = [commandBuffer EXCEPT !.state = "pending"]
  /\ m_graphicsQueue' = Append(m_graphicsQueue, [call |-> commandBuffer.call, commands |-> commandBuffer.commands])
  /\ callLog' = callLog \o <<"vkEndCommandBuffer", "vkQueueSubmit">>
  /\ tpc' = "wait"
  /\ UNCHANGED <<transferCall, callCount, poolAllocated, executed>>
  /\ UNCHANGED <<programVars, surfaceVars, memVars, textureVars, transitionVars, uploadVars, imagesVars, stagingVars, waitVars>>

\* the GPU executes the oldest submitted command buffer
GpuExecuteTransfer ==
  /\ m_graphicsQueue # <<>>
  /\ executed' = executed \o [i \in 1 .. Len(Head(m_graphicsQueue).commands) |->
                                [call |-> Head(m_graphicsQueue).call,
                                 command |-> Head(m_graphicsQueue).commands[i]]]
  /\ m_graphicsQueue' = Tail(m_graphicsQueue)
  /\ commandBuffer' = IF commandBuffer.call = Head(m_graphicsQueue).call /\ commandBuffer.state = "pending"
                      THEN [commandBuffer EXCEPT !.state = "invalid"] ELSE commandBuffer
  /\ UNCHANGED <<transferCall, tpc, callCount, poolAllocated, callLog>>
  /\ UNCHANGED <<programVars, surfaceVars, memVars, textureVars, transitionVars, uploadVars, imagesVars, stagingVars, waitVars>>

\* vkQueueWaitIdle(m_graphicsQueue) returns when the queue has nothing left
\* to execute
QueueIdle_NoWait == TRUE
QueueIdle == m_graphicsQueue = <<>>

\* vkQueueWaitIdle of EndSingleTimeCommands
QueueWaitIdle ==
  /\ tpc = "wait"
  /\ QueueIdle
  /\ callLog' = Append(callLog, "vkQueueWaitIdle")
  /\ tpc' = "free"
  /\ UNCHANGED <<transferCall, callCount, commandBuffer, poolAllocated, m_graphicsQueue, executed>>
  /\ UNCHANGED <<programVars, surfaceVars, memVars, textureVars, transitionVars, uploadVars, imagesVars, stagingVars, waitVars>>

\* vkFreeCommandBuffers of EndSingleTimeCommands; the transfer call returns
FreeCommandBuffers ==
  /\ tpc = "free"
  /\ commandBuffer' = [commandBuffer EXCEPT !.state = "freed"]
  /\ poolAllocated' = poolAllocated - 1
  /\ callLog' = Append(callLog, "vkFreeCommandBuffers")
  /\ tpc' = "idle"
  /\ UNCHANGED <<transferCall, callCount, m_graphicsQueue, executed>>
  /\ UNCHANGED <<programVars, surfaceVars, memVars, textureVars, transitionVars, uploadVars, imagesVars, stagingVars, waitVars>>

NextTransfer ==
  \/ BeginSingleTimeCommands
  \/ RecordCopy
  \/ EndAndSubmit
  \/ GpuExecuteTransfer
  \/ QueueWaitIdle
  \/ FreeCommandBuffers

SpecTransfer == InitTransfer /\ [][NextTransfer]_vars

\* C19: a transfer call makes its API calls in the order allocate, begin
\* (one-time submit), one copy command, end, submit, wait for the queue to
\* be idle, free; the command buffer is freed and the call returns only
\* when the GPU has completed its copy; the copies of successive calls
\* complete in the order of the calls, one copy for each call.
C19_TransferBlocksUntilCopied ==
  /\ (tpc = "idle" /\ callCount > 0) =>
        /\ callLog = <<"vkAllocateCommandBuffers", "vkBeginCommandBuffer",
                       IF transferCall = "CopyBuffer" THEN "vkCmdCopyBuffer" ELSE "vkCmdCopyBufferToImage",
                       "vkEndCommandBuffer", "vkQueueSubmit", "vkQueueWaitIdle",
                       "vkFreeCommandBuffers">>
        /\ Len(executed) = callCount
  /\ commandBuffer.state = "freed" =>
        \E i \in 1 .. Len(executed) : executed[i].call = commandBuffer.call
  /\ commandBuffer.state # "none" =>
        /\ commandBuffer.flags = "ONE_TIME_SUBMIT"
        /\ Len(commandBuffer.commands) <= 1
  /\ poolAllocated <= 1
  /\ Len(m_graphicsQueue) <= 1
  /\ \A i \in 1 .. Len(executed) : executed[i].call = i

\* two calls have returned, an image copy and then a buffer copy, each
\* executed before the next began
C19_Witness ==
  /\ tpc = "idle"
  /\ callCount = 2
  /\ transferCall = "CopyBuffer"
  /\ Len(executed) = 2
  /\ executed[1].command = "vkCmdCopyBufferToImage"
  /\ executed[2].command = "vkCmdCopyBuffer"
  /\ commandBuffer.state = "freed"


\* ---------------------------------------------------------------------
\* The texture image: Texture::CreateTextureImage, Texture::GenerateMipmaps
\* and ImageBuffer::TransitionImageLayout.  Every command buffer of these
\* is submitted by EndSingleTimeCommands, which waits for the queue, so the
\* commands act on the image in the order the program records them.
\* ---------------------------------------------------------------------

\* Texture::m_texWidth and m_texHeight keep their default member
\* initialiser: no statement assigns them
m_texWidth == 0
m_texHeight == 0

RECURSIVE FloorLog2(_)
\* std::floor(std::log2(n)) for n >= 1
FloorLog2(n) == IF n <= 1 THEN 0 ELSE 1 + FloorLog2(n \div 2)

Max2(a, b) == IF a >= b THEN a ELSE b

\* mipLevels of CreateTextureImage, a uint8_t: the cast of the floor, plus one
MipLevels_OfMin(w, h) == ((FloorLog2(IF w <= h THEN w ELSE h) % 256) + 1) % 256
MipLevels(w, h) == ((FloorLog2(Max2(w, h)) % 256) + 1) % 256

\* barrier.subresourceRange.levelCount of TransitionImageLayout
TransitionLevelCount_One(mipLevels) == 1
TransitionLevelCount(mipLevels) == mipLevels

\* vkCmdPipelineBarrier with one image barrier over count levels from base:
\* the levels take the new layout; the entry keeps the layouts they had
PipelineBarrier(base, count, old, new) ==
  /\ layout' = [l \in DOMAIN layout |-> IF l >= base /\ l < base + count THEN new ELSE layout[l]]
  /\ cmdLog' = Append(cmdLog, [cmd |-> "barrier", level |-> base, count |-> count,
                               oldLayout |-> old, newLayout |-> new, src |-> -1,
                               actual |-> [k \in 1 .. count |->
                                             IF (base + k - 1) \in DOMAIN layout
                                             THEN layout[base + k - 1] ELSE "NO_LEVEL"],
                               srcExtent |-> <<0, 0>>, dstExtent |-> <<0, 0>>])

\* a picture has been loaded
InitTexture ==
  /\ ProgramInit
  /\ platformFixed = FALSE
  /\ SurfaceUnused
  /\ WaitUnused
  /\ StagingUnused
  /\ ImagesUnused
  /\ UploadUnused
  /\ TransitionUnused
  /\ MemUnused
  /\ TransferUnused
  /\ texWidth \in 1 .. MaxTexDim
  /\ texHeight \in 1 .. MaxTexDim
  /\ hasMipLevels \in BOOLEAN
  /\ m_mipLevels = 1
  /\ layout = <<>>
  /\ xpc = "create"
  /\ mip = 0
  /\ mipWidth = 0
  /\ mipHeight = 0
  /\ cmdLog = <<>>

\* CreateTextureImage up to CreateImageBuffer: SetMipLevels(mipLevels), an
\* image of that many levels with initialLayout UNDEFINED
CreateImageBuffer ==
  /\ xpc = "create"
  /\ m_mipLevels' = MipLevels(texWidth, texHeight)
  /\ layout' = [l \in 0 .. (MipLevels(texWidth, texHeight) - 1) |-> "UNDEFINED"]
  /\ xpc' = "to_dst"
  /\ UNCHANGED <<texWidth, texHeight, hasMipLevels, mip, mipWidth, mipHeight, cmdLog>>
  /\ UNCHANGED <<programVars, surfaceVars, memVars, transferVars, transitionVars, uploadVars, imagesVars, stagingVars, waitVars>>

\* TransitionImageLayout(UNDEFINED, TRANSFER_DST_OPTIMAL)
TransitionToTransferDst ==
  /\ xpc = "to_dst"
  /\ PipelineBarrier(0, TransitionLevelCount(m_mipLevels), "UNDEFINED", "TRANSFER_DST")
  /\ xpc' = "copy"
  /\ UNCHANGED <<texWidth, texHeight, hasMipLevels, m_mipLevels, mip, mipWidth, mipHeight>>
  /\ UNCHANGED <<programVars, surfaceVars, memVars, transferVars, transitionVars, uploadVars, imagesVars, stagingVars, waitVars>>

\* CopyBuffer2Image(stagingBuffer, image, texWidth, texHeight): the pixels
\* go to mip level 0; then the branch on hasMipLevels
CopyBuffer2Image ==
  /\ xpc = "copy"
  /\ cmdLog' = Append(cmdLog, [cmd |-> "copy", level |-> 0, count |-> 1,
                               oldLayout |-> "TRANSFER_DST", newLayout |-> "TRANSFER_DST", src |-> -1,
                               actual |-> <<layout[0]>>,
                               srcExtent |-> <<texWidth, texHeight>>,
                               dstExtent |-> <<texWidth, texHeight>>])
  /\ xpc' = IF hasMipLevels THEN "mip_begin" ELSE "to_shader"
  /\ UNCHANGED <<texWidth, texHeight, hasMipLevels, m_mipLevels, layout, mip, mipWidth, mipHeight>>
  /\ UNCHANGED <<programVars, surfaceVars, memVars, transferVars, transitionVars, uploadVars, imagesVars, stagingVars, waitVars>>

\* the else branch: TransitionImageLayout(TRANSFER_DST_OPTIMAL,
\* SHADER_READ_ONLY_OPTIMAL)
TransitionToShaderRead ==
  /\ xpc = "to_shader"
  /\ PipelineBarrier(0, TransitionLevelCount(m_mipLevels), "TRANSFER_DST", "SHADER_READ_ONLY")
  /\ xpc' = "done"
  /\ UNCHANGED <<texWidth, texHeight, hasMipLevels, m_mipLevels, mip, mipWidth, mipHeight>>
  /\ UNCHANGED <<programVars, surfaceVars, memVars, transferVars, transitionVars, uploadVars, imagesVars, stagingVars, waitVars>>

\* GenerateMipmaps before its loop
GenerateMipmapsBegin ==
  /\ xpc = "mip_begin"
  /\ mipWidth' = m_texWidth
  /\ mipHeight' = m_texHeight
  /\ mip' = 1
  /\ xpc' = "mip_test"
  /\ UNCHANGED <<texWidth, texHeight, hasMipLevels, m_mipLevels, layout, cmdLog>>
  /\ UNCHANGED <<programVars, surfaceVars, memVars, transferVars, transitionVars, uploadVars, imagesVars, stagingVars, waitVars>>

\* i < m_imageBuffer.GetMipLevels()
MipLoopTest ==
  /\ xpc = "mip_test"
  /\ xpc' = IF mip < m_mipLevels THEN "mip_src" ELSE "mip_last"
  /\ UNCHANGED <<texWidth, texHeight, hasMipLevels, m_mipLevels, layout, mip, mipWidth, mipHeight, cmdLog>>
  /\ UNCHANGED <<programVars, surfaceVars, memVars, transferVars, transitionVars, uploadVars, imagesVars, stagingVars, waitVars>>

\* first barrier of the loop body: level i - 1 from TRANSFER_DST to
\* TRANSFER_SRC
MipBarrierToSrc ==
  /\ xpc = "mip_src"
  /\ PipelineBarrier(mip - 1, 1, "TRANSFER_DST", "TRANSFER_SRC")
  /\ xpc' = "mip_blit"
  /\ UNCHANGED <<texWidth, texHeight, hasMipLevels, m_mipLevels, mip, mipWidth, mipHeight>>
  /\ UNCHANGED <<programVars, surfaceVars, memVars, transferVars, transitionVars, uploadVars, imagesVars, stagingVars, waitVars>>

\* vkCmdBlitImage from level i - 1 to level i
MipBlit ==
  /\ xpc = "mip_blit"
  /\ cmdLog' = Append(cmdLog, [cmd |-> "blit", level |-> mip, count |-> 1,
                               oldLayout |-> "TRANSFER_SRC", newLayout |-> "TRANSFER_DST",
                               src |-> mip - 1,
                               actual |-> <<layout[mip - 1], layout[mip]>>,
                               srcExtent |-> <<mipWidth, mipHeight>>,
                               dstExtent |-> <<IF mipWidth > 1 THEN mipWidth \div 2 ELSE 1,
                                               IF mipHeight > 1 THEN mipHeight \div 2 ELSE 1>>])
  /\ xpc' = "mip_read"
  /\ UNCHANGED <<texWidth, texHeight, hasMipLevels, m_mipLevels, layout, mip, mipWidth, mipHeight>>
  /\ UNCHANGED <<programVars, surfaceVars, memVars, transferVars, transitionVars, uploadVars, imagesVars, stagingVars, waitVars>>

\* second barrier of the loop body: level i - 1 from TRANSFER_SRC to
\* SHADER_READ_ONLY; the halving of mipWidth and mipHeight; ++i
MipBarrierToShaderRead ==
  /\ xpc = "mip_read"
  /\ PipelineBarrier(mip - 1, 1, "TRANSFER_SRC", "SHADER_READ_ONLY")
  /\ mipWidth' = IF mipWidth > 1 THEN mipWidth \div 2 ELSE mipWidth
  /\ mipHeight' = IF mipHeight > 1 THEN mipHeight \div 2 ELSE mipHeight
  /\ mip' = mip + 1
  /\ xpc' = "mip_test"
  /\ UNCHANGED <<texWidth, texHeight, hasMipLevels, m_mipLevels>>
  /\ UNCHANGED <<programVars, surfaceVars, memVars, transferVars, transitionVars, uploadVars, imagesVars, stagingVars, waitVars>>

\* the barrier after the loop: level GetMipLevels() - 1 from TRANSFER_DST to
\* SHADER_READ_ONLY
MipBarrierLast ==
  /\ xpc = "mip_last"
  /\ PipelineBarrier(m_mipLevels - 1, 1, "TRANSFER_DST", "SHADER_READ_ONLY")
  /\ xpc' = "done"
  /\ UNCHANGED <<texWidth, texHeight, hasMipLevels, m_mipLevels, mip, mipWidth, mipHeight>>
  /\ UNCHANGED <<programVars, surfaceVars, memVars, transferVars, transitionVars, uploadVars, imagesVars, stagingVars, waitVars>>

NextTexture ==
  \/ CreateImageBuffer
  \/ TransitionToTransferDst
  \/ CopyBuffer2Image
  \/ TransitionToShaderRead
  \/ GenerateMipmapsBegin
  \/ MipLoopTest
  \/ MipBarrierToSrc
  \/ MipBlit
  \/ MipBarrierToShaderRead
  \/ MipBarrierLast

SpecTexture == InitTexture /\ [][NextTexture]_vars

\* C20: with mip generation requested, every barrier executed on the image
\* names as old layout the layout its levels are in; the pixels are copied
\* into level 0 while it is TRANSFER_DST; each blit reads a level that is
\* TRANSFER_SRC and writes the next level while it is TRANSFER_DST; and
\* when CreateTextureImage is done the commands were, in order: all levels
\* UNDEFINED to TRANSFER_DST, the copy, for i in 1..L-1 level i-1 to
\* TRANSFER_SRC, blit into level i, level i-1 to SHADER_READ_ONLY, then
\* level L-1 from TRANSFER_DST to SHADER_READ_ONLY; all levels are
\* SHADER_READ_ONLY.
C20_MipLayoutStateMachine ==
  hasMipLevels =>
    /\ \A n \in 1 .. Len(cmdLog) :
         /\ cmdLog[n].cmd = "barrier" =>
              \A k \in 1 .. cmdLog[n].count : cmdLog[n].actual[k] = cmdLog[n].oldLayout
         /\ cmdLog[n].cmd = "copy" => cmdLog[n].actual = <<"TRANSFER_DST">>
         /\ cmdLog[n].cmd = "blit" => cmdLog[n].actual = <<"TRANSFER_SRC", "TRANSFER_DST">>
    /\ xpc = "done" =>
         /\ \A l \in 0 .. (m_mipLevels - 1) : layout[l] = "SHADER_READ_ONLY"
         /\ Len(cmdLog) = 3 * m_mipLevels
         /\ cmdLog[1].cmd = "barrier" /\ cmdLog[1].level = 0 /\ cmdLog[1].count = m_mipLevels
         /\ cmdLog[1].oldLayout = "UNDEFINED" /\ cmdLog[1].newLayout = "TRANSFER_DST"
         /\ cmdLog[2].cmd = "copy" /\ cmdLog[2].level = 0
         /\ \A i \in 1 .. (m_mipLevels - 1) :
              /\ cmdLog[3 * i].cmd = "barrier"
              /\ cmdLog[3 * i].level = i - 1 /\ cmdLog[3 * i].count = 1
              /\ cmdLog[3 * i].oldLayout = "TRANSFER_DST" /\ cmdLog[3 * i].newLayout = "TRANSFER_SRC"
              /\ cmdLog[3 * i + 1].cmd = "blit"
              /\ cmdLog[3 * i + 1].src = i - 1 /\ cmdLog[3 * i + 1].level = i
              /\ cmdLog[3 * i + 2].cmd = "barrier"
              /\ cmdLog[3 * i + 2].level = i - 1 /\ cmdLog[3 * i + 2].count = 1
              /\ cmdLog[3 * i + 2].oldLayout = "TRANSFER_SRC"
              /\ cmdLog[3 * i + 2].newLayout = "SHADER_READ_ONLY"
         /\ cmdLog[3 * m_mipLevels].cmd = "barrier"
         /\ cmdLog[3 * m_mipLevels].level = m_mipLevels - 1 /\ cmdLog[3 * m_mipLevels].count = 1
         /\ cmdLog[3 * m_mipLevels].oldLayout = "TRANSFER_DST"
         /\ cmdLog[3 * m_mipLevels].newLayout = "SHADER_READ_ONLY"

\* a picture of three mip levels has gone through GenerateMipmaps
C20_Witness ==
  /\ xpc = "done"
  /\ hasMipLevels
  /\ m_mipLevels = 3
  /\ Len(cmdLog) = 9
  /\ \A l \in 0 .. 2 : layout[l] = "SHADER_READ_ONLY"


\* ---------------------------------------------------------------------
\* The mip level count of CreateTextureImage alone, for pictures of up to
\* MaxPicDim x MaxPicDim
\* ---------------------------------------------------------------------

InitMipCount ==
  /\ ProgramInit
  /\ platformFixed = FALSE
  /\ SurfaceUnused
  /\ WaitUnused
  /\ StagingUnused
  /\ ImagesUnused
  /\ UploadUnused
  /\ TransitionUnused
  /\ MemUnused
  /\ TransferUnused
  /\ texWidth \in 1 .. MaxPicDim
  /\ texHeight \in 1 .. MaxPicDim
  /\ hasMipLevels = TRUE
  /\ m_mipLevels = 1
  /\ layout = <<>>
  /\ xpc = "create"
  /\ mip = 0
  /\ mipWidth = 0
  /\ mipHeight = 0
  /\ cmdLog = <<>>

NextMipCount ==
  \/ CreateImageBuffer

SpecMipCount == InitMipCount /\ [][NextMipCount]_vars

\* C21: the image of a texture of width w and height h, both at least 1, is
\* allocated with L mip levels where 2^(L-1) <= max(w, h) < 2^L, L fits 8
\* bits, and a picture of 512 x 512 gets 10 levels.
C21_MipLevelCount ==
  xpc = "to_dst" =>
    LET m == IF texWidth >= texHeight THEN texWidth ELSE texHeight
    IN /\ m_mipLevels \in 1 .. 255
       /\ 2 ^ (m_mipLevels - 1) <= m
       /\ m < 2 ^ m_mipLevels
       /\ DOMAIN layout = 0 .. (m_mipLevels - 1)
       /\ (texWidth = 512 /\ texHeight = 512) => m_mipLevels = 10

\* the image of a picture of 512 x 512 has been allocated
C21_Witness ==
  /\ xpc = "to_dst"
  /\ texWidth = 512
  /\ texHeight = 512
  /\ m_mipLevels = 10
  /\ DOMAIN layout = 0 .. 9


\* width (or height) of mip level i of a picture whose level 0 measures n:
\* halved with floor at each level, never below 1
RECURSIVE MipDim(_, _)
MipDim(n, i) ==
  IF i = 0 THEN n
  ELSE LET p == MipDim(n, i - 1) IN IF p \div 2 >= 1 THEN p \div 2 ELSE 1

\* C22: the blit into level i reads a region of the size of level i - 1 and
\* writes a region of the size of level i, the sizes being those of the
\* loaded picture halved i - 1 and i times (floor, at least 1).
C22_BlitExtents ==
  \A n \in 1 .. Len(cmdLog) :
    cmdLog[n].cmd = "blit" =>
      /\ cmdLog[n].srcExtent = <<MipDim(texWidth, cmdLog[n].level - 1), MipDim(texHeight, cmdLog[n].level - 1)>>
      /\ cmdLog[n].dstExtent = <<MipDim(texWidth, cmdLog[n].level), MipDim(texHeight, cmdLog[n].level)>>

\* C23: a texture created without mip generation has one mip level, and
\* after the copy a single barrier takes the whole range from TRANSFER_DST
\* to SHADER_READ_ONLY.
C23_NoMipsOneLevel ==
  (xpc = "done" /\ ~hasMipLevels) =>
    /\ m_mipLevels = 1
    /\ DOMAIN layout = {0}
    /\ Len(cmdLog) = 3
    /\ cmdLog[3].cmd = "barrier"
    /\ cmdLog[3].level = 0 /\ cmdLog[3].count = 1
    /\ cmdLog[3].oldLayout = "TRANSFER_DST" /\ cmdLog[3].newLayout = "SHADER_READ_ONLY"


\* ---------------------------------------------------------------------
\* ImageBuffer::TransitionImageLayout called with any pair of layouts
\* ---------------------------------------------------------------------

Layouts == {"UNDEFINED", "TRANSFER_DST", "TRANSFER_SRC", "SHADER_READ_ONLY"}

\* an image of 1..MaxMips levels, all in one layout, and the two arguments
InitTransition ==
  /\ ProgramInit
  /\ platformFixed = FALSE
  /\ SurfaceUnused
  /\ WaitUnused
  /\ StagingUnused
  /\ ImagesUnused
  /\ UploadUnused
  /\ MemUnused
  /\ TransferUnused
  /\ texWidth = 0
  /\ texHeight = 0
  /\ hasMipLevels = FALSE
  /\ m_mipLevels \in 1 .. MaxMips
  /\ \E cur \in Layouts : layout = [l \in 0 .. (m_mipLevels - 1) |-> cur]
  /\ xpc = "transition"
  /\ mip = 0
  /\ mipWidth = 0
  /\ mipHeight = 0
  /\ cmdLog = <<>>
  /\ oldLayout \in Layouts
  /\ newLayout \in Layouts
  /\ sourceStage = 0
  /\ destinationStage = 0
  /\ submitted = 0

\* the if and the else if of TransitionImageLayout; there is no else: for
\* any other pair both stages keep their initial value 0
TransitionStages ==
  /\ xpc = "transition"
  /\ IF oldLayout = "UNDEFINED" /\ newLayout = "TRANSFER_DST"
     THEN sourceStage' = "TOP_OF_PIPE" /\ destinationStage' = "TRANSFER"
     ELSE IF oldLayout = "TRANSFER_DST" /\ newLayout = "SHADER_READ_ONLY"
          THEN sourceStage' = "TRANSFER" /\ destinationStage' = "FRAGMENT_SHADER"
          ELSE UNCHANGED <<sourceStage, destinationStage>>
  /\ xpc' = "barrier"
  /\ UNCHANGED <<oldLayout, newLayout, submitted>>
  /\ UNCHANGED <<texWidth, texHeight, hasMipLevels, m_mipLevels, layout, mip, mipWidth, mipHeight, cmdLog>>
  /\ UNCHANGED <<programVars, surfaceVars, memVars, transferVars, uploadVars, imagesVars, stagingVars, waitVars>>

\* vkCmdPipelineBarrier(commandBuffer, sourceStage, destinationStage, ..,
\* 1, &barrier), called on every path
TransitionBarrier ==
  /\ xpc = "barrier"
  /\ PipelineBarrier(0, TransitionLevelCount(m_mipLevels), oldLayout, newLayout)
  /\ xpc' = "end"
  /\ UNCHANGED <<texWidth, texHeight, hasMipLevels, m_mipLevels, mip, mipWidth, mipHeight>>
  /\ UNCHANGED transitionVars
  /\ UNCHANGED <<programVars, surfaceVars, memVars, transferVars, uploadVars, imagesVars, stagingVars, waitVars>>

\* application.EndSingleTimeCommands(commandBuffer) and the return
TransitionEnd ==
  /\ xpc = "end"
  /\ submitted' = submitted + 1
  /\ xpc' = "returned"
  /\ UNCHANGED <<oldLayout, newLayout, sourceStage, destinationStage>>
  /\ UNCHANGED <<texWidth, texHeight, hasMipLevels, m_mipLevels, layout, mip, mipWidth, mipHeight, cmdLog>>
  /\ UNCHANGED <<programVars, surfaceVars, memVars, transferVars, uploadVars, imagesVars, stagingVars, waitVars>>

NextTransition ==
  \/ TransitionStages
  \/ TransitionBarrier
  \/ TransitionEnd

SpecTransition == InitTransition /\ [][NextTransition]_vars

\* C24: a call with a pair of layouts other than (UNDEFINED, TRANSFER_DST)
\* and (TRANSFER_DST, SHADER_READ_ONLY) records no barrier, submits nothing
\* and does not return.
C24_UnsupportedPairFailsFast ==
  (/\ ~(oldLayout = "UNDEFINED" /\ newLayout = "TRANSFER_DST")
   /\ ~(oldLayout = "TRANSFER_DST" /\ newLayout = "SHADER_READ_ONLY")) =>
     /\ cmdLog = <<>>
     /\ submitted = 0
     /\ xpc # "returned"


\* ---------------------------------------------------------------------
\* Model::CreateVertexIndexBuffer: host data to a staging buffer, the
\* staging buffer to a device-local buffer with Buffer::CopyBuffer; then
\* Buffer::CopyBuffer from the device-local buffer to a second staging
\* buffer
\* ---------------------------------------------------------------------

Bytes == {0, 1, 255}

\* a byte of memory nothing has been written to
Indeterminate == -1

\* memory of a buffer just created with vkCreateBuffer and vkAllocateMemory
FreshMemory(size) == [i \in 1 .. size |-> Indeterminate]

\* the VkBufferCopy of Buffer::CopyBuffer
CopyInfo_Short(size) == [srcOffset |-> 0, dstOffset |-> 0, size |-> size - 1]
CopyInfo(size) == [srcOffset |-> 0, dstOffset |-> 0, size |-> size]

\* vkCmdCopyBuffer(commandBuffer, srcBuff, dstBuff, 1, &copyInfo) once
\* executed: the destination's memory afterwards
CmdCopyBuffer(src, dst, copyInfo) ==
  [i \in 1 .. Len(dst) |->
     IF i > copyInfo.dstOffset /\ i <= copyInfo.dstOffset + copyInfo.size
        /\ (i - copyInfo.dstOffset + copyInfo.srcOffset) \in 1 .. Len(src)
     THEN src[i - copyInfo.dstOffset + copyInfo.srcOffset]
     ELSE dst[i]]

\* size = sizeof(dataVec[0]) * dataVec.size()
UploadSize == Len(dataVec)

InitUpload ==
  /\ ProgramInit
  /\ platformFixed = FALSE
  /\ SurfaceUnused
  /\ WaitUnused
  /\ StagingUnused
  /\ ImagesUnused
  /\ MemUnused
  /\ TransferUnused
  /\ TextureUnused
  /\ TransitionUnused
  /\ \E n \in 1 .. MaxBytes : dataVec \in [1 .. n -> Bytes]
  /\ stagingBuffer = <<>>
  /\ deviceBuffer = <<>>
  /\ readback = <<>>
  /\ upc = "staging"

\* CreateBuffer(size, TRANSFER_SRC, HOST_VISIBLE | HOST_COHERENT, stagingBuffer, stagingMemory)
CreateStagingBuffer ==
  /\ upc = "staging"
  /\ stagingBuffer' = FreshMemory(UploadSize)
  /\ upc' = "memcpy"
  /\ UNCHANGED <<dataVec, deviceBuffer, readback>>
  /\ UNCHANGED <<programVars, surfaceVars, memVars, transferVars, textureVars, transitionVars, imagesVars, stagingVars, waitVars>>

\* vkMapMemory(.., 0, size, ..), memcpy(data, dataVec.data(), size), vkUnmapMemory
MapAndMemcpy ==
  /\ upc = "memcpy"
  /\ stagingBuffer' = [i \in 1 .. Len(stagingBuffer) |->
                         IF i <= UploadSize THEN dataVec[i] ELSE stagingBuffer[i]]
  /\ upc' = "device"
  /\ UNCHANGED <<dataVec, deviceBuffer, readback>>
  /\ UNCHANGED <<programVars, surfaceVars, memVars, transferVars, textureVars, transitionVars, imagesVars, stagingVars, waitVars>>

\* CreateBuffer(size, useFlag | TRANSFER_DST, DEVICE_LOCAL, buffer, memory)
CreateDeviceBuffer ==
  /\ upc = "device"
  /\ deviceBuffer' = FreshMemory(UploadSize)
  /\ upc' = "copy"
  /\ UNCHANGED <<dataVec, stagingBuffer, readback>>
  /\ UNCHANGED <<programVars, surfaceVars, memVars, transferVars, textureVars, transitionVars, imagesVars, stagingVars, waitVars>>

\* buffer.CopyBuffer(stagingBuffer, buffer.GetBuffer(), size), which returns
\* when the copy has executed
CopyBuffer ==
  /\ upc = "copy"
  /\ deviceBuffer' = CmdCopyBuffer(stagingBuffer, deviceBuffer, CopyInfo(UploadSize))
  /\ upc' = "destroy"
  /\ UNCHANGED <<dataVec, stagingBuffer, readback>>
  /\ UNCHANGED <<programVars, surfaceVars, memVars, transferVars, textureVars, transitionVars, imagesVars, stagingVars, waitVars>>

\* vkDestroyBuffer(stagingBuffer), vkFreeMemory(stagingMemory)
DestroyStagingBuffer ==
  /\ upc = "destroy"
  /\ stagingBuffer' = <<>>
  /\ upc' = "uploaded"
  /\ UNCHANGED <<dataVec, deviceBuffer, readback>>
  /\ UNCHANGED <<programVars, surfaceVars, memVars, transferVars, textureVars, transitionVars, imagesVars, stagingVars, waitVars>>

\* Buffer::CopyBuffer in the other direction: a second host-visible buffer
\* of the same size is created and CopyBuffer(buffer, readback, size) fills it
CopyBufferBack ==
  /\ upc = "uploaded"
  /\ readback' = CmdCopyBuffer(deviceBuffer, FreshMemory(UploadSize), CopyInfo(UploadSize))
  /\ upc' = "read"
  /\ UNCHANGED <<dataVec, stagingBuffer, deviceBuffer>>
  /\ UNCHANGED <<programVars, surfaceVars, memVars, transferVars, textureVars, transitionVars, imagesVars, stagingVars, waitVars>>

NextUpload ==
  \/ CreateStagingBuffer
  \/ MapAndMemcpy
  \/ CreateDeviceBuffer
  \/ CopyBuffer
  \/ DestroyStagingBuffer
  \/ CopyBufferBack

SpecUpload == InitUpload /\ [][NextUpload]_vars

C27_AcquireFailureStopsTick ==
  "acquire_failed" \in Range(tickLog) =>
     Range(tickLog) \cap {"reset_fence", "update_ubo", "record", "submit", "present"} = {}


\* C28: the slot index stays in 0 .. MAX_FRAMES_IN_FLIGHT - 1; it changes
\* only in the last step of a tick that has presented, once, to the next
\* index modulo MAX_FRAMES_IN_FLIGHT, and a tick that has presented does not
\* end otherwise; the fence waited on and reset, the semaphore passed to
\* the acquire, the uniform buffer written, the command buffer recorded and
\* submitted, the descriptor set bound, the semaphores and fence of the
\* submit and the semaphore of the present are those of the slot index.
C28_SlotIndex ==
  [][ /\ m_currentFrame \in Slots /\ m_currentFrame' \in Slots
      /\ m_currentFrame' # m_currentFrame =>
           /\ m_currentFrame' = (m_currentFrame + 1) % MAX_FRAMES_IN_FLIGHT
           /\ pc = "advance" /\ pc' = "poll"
           /\ "present" \in Range(tickLog)
           /\ "advance" \notin Range(tickLog)
      /\ ("present" \in Range(tickLog) /\ pc # "poll" /\ pc' = "poll") =>
           m_currentFrame' # m_currentFrame
      /\ (pc = "wait" /\ pc' = "acquire") => m_inFlightFences[m_currentFrame]
      /\ \A s \in Slots :
           /\ (m_inFlightFences[s] /\ ~m_inFlightFences'[s]) => s = m_currentFrame
           /\ m_uniformBuffers'[s] # m_uniformBuffers[s] => s = m_currentFrame
           /\ m_commandBuffers'[s] # m_commandBuffers[s] =>
                (s = m_currentFrame /\ m_commandBuffers'[s].descriptorSet = m_currentFrame)
      /\ \A a \in acquiring' \ acquiring : a.sem = m_currentFrame
      /\ Len(queue') > Len(queue) =>
           /\ Last(queue').slot = m_currentFrame
           /\ Last(queue').waitSem = m_currentFrame
           /\ Last(queue').signalSem = m_currentFrame
           /\ Last(queue').fence = m_currentFrame
           /\ Last(queue').image = m_commandBuffers[m_currentFrame].image
      /\ Len(presents') > Len(presents) => Last(presents').waitSem = m_currentFrame
    ]_vars

\* a tick of slot 1 has presented and brought the index back to 0
C28_Witness ==
  /\ pc = "poll"
  /\ tickLog # <<>>
  /\ Last(tickLog) = "advance"
  /\ m_currentFrame = 0
  /\ m_commandBuffers[1].descriptorSet = 1
  /\ m_commandBuffers[0].descriptorSet = 0


\* the combination ChooseSwapSurfaceFormat looks for
PreferredSurfaceFormat == [format |-> "B8G8R8A8_SRGB", colorSpace |-> "SRGB_NONLINEAR"]

\* C29: on a non-empty list of surface formats ChooseSwapSurfaceFormat
\* returns the first entry equal to (B8G8R8A8_SRGB, SRGB_NONLINEAR) when the
\* list has one and the first entry of the list otherwise; what it returns
\* is an entry of the list.
C29_SurfaceFormatChoice ==
  gen >= 1 =>
    LET chosen == [format |-> m_swapChainImageFormat, colorSpace |-> imageColorSpace]
        formats == surface.formats
        hits == {i \in 1 .. Len(formats) : formats[i] = PreferredSurfaceFormat}
    IN /\ chosen \in Range(formats)
       /\ hits # {} => \E i \in hits : (\A j \in hits : i <= j) /\ chosen = formats[i]
       /\ hits = {} => chosen = formats[1]

\* the preferred combination is second in the list, behind an entry of the
\* same format in another colour space, and is the one taken
C29_Witness ==
  /\ gen >= 1
  /\ Len(surface.formats) = 2
  /\ surface.formats[1] = [format |-> "B8G8R8A8_SRGB", colorSpace |-> "EXTENDED_SRGB_LINEAR"]
  /\ surface.formats[2] = PreferredSurfaceFormat
  /\ m_swapChainImageFormat = "B8G8R8A8_SRGB"
  /\ imageColorSpace = "SRGB_NONLINEAR"

\* C30: ChooseSwapPresentMode returns MAILBOX exactly when the list of
\* present modes contains it, and FIFO otherwise (the empty list included).
C30_PresentModeChoice ==
  /\ ChooseSwapPresentMode(<<>>) = "FIFO"
  /\ gen >= 1 =>
       /\ presentMode = "MAILBOX" <=> "MAILBOX" \in Range(surface.present_modes)
       /\ presentMode # "MAILBOX" => presentMode = "FIFO"

\* FIFO is returned for a list that holds neither MAILBOX nor FIFO
C30_Witness ==
  /\ gen >= 1
  /\ surface.present_modes = <<"IMMEDIATE">>
  /\ presentMode = "FIFO"


\* ---------------------------------------------------------------------
\* The image arrays: CreateSwapChain asks for a number of images, stores
\* the images of the swapchain and their views in m_swapChainImageBuffers,
\* CreateFrameBuffers builds one framebuffer for each element, DrawFrame
\* acquires an image and RecordCommandBuffer picks the framebuffer of its
\* index.
\* ---------------------------------------------------------------------
\* capability sets with minImageCount <= maxImageCount, or no maximum (0)
ImageCountCaps ==
  {[minImageCount |-> mn, maxImageCount |-> mx] :
     mn \in 1 .. MaxMinImageCount, mx \in 0 .. (MaxMinImageCount + 1)} \
  {c \in [minImageCount : 1 .. MaxMinImageCount, maxImageCount : 0 .. (MaxMinImageCount + 1)] :
     c.maxImageCount # 0 /\ c.maxImageCount < c.minImageCount}

InitImages ==
  /\ ProgramInit
  /\ SurfaceUnused
  /\ WaitUnused
  /\ StagingUnused
  /\ UploadUnused
  /\ TransitionUnused
  /\ MemUnused
  /\ TransferUnused
  /\ TextureUnused
  /\ surfaceCapabilities \in ImageCountCaps
  /\ imageCountAsked = 0
  /\ swapchainImages = 0
  /\ m_swapChainImageBuffers = <<>>
  /\ m_swapChainFrameBuffers = <<>>
  /\ loopIndex = 0
  /\ overrun = FALSE
  /\ acquiredIndex = NoImage
  /\ framebuffer = "none"
  /\ creations = 0
  /\ ipc = "CreateSwapChain"

\* uint32_t imageCount = swapChainSupport.capabilities.minImageCount + 1
RequestedImageCount(capabilities) == capabilities.minImageCount + 1

\* VUID of VkSwapchainCreateInfoKHR: minImageCount lies within the bounds
\* the surface reports
ValidImageCount(capabilities, n) ==
  /\ n >= capabilities.minImageCount
  /\ capabilities.maxImageCount # 0 => n <= capabilities.maxImageCount

\* CreateSwapChain up to the filling of createInfo.minImageCount
FillCreateInfo ==
  /\ ipc = "CreateSwapChain"
  /\ imageCountAsked' = RequestedImageCount(surfaceCapabilities)
  /\ ipc' = "vkCreateSwapchainKHR"
  /\ UNCHANGED <<surfaceCapabilities, swapchainImages, m_swapChainImageBuffers,
                 m_swapChainFrameBuffers, loopIndex, overrun, acquiredIndex, framebuffer, creations>>
  /\ UNCHANGED <<programVars, surfaceVars, memVars, transferVars, textureVars, transitionVars, uploadVars, stagingVars, waitVars>>

\* std::vector::resize(n): the elements kept, new ones default-constructed
Resize(v, n, new) == [i \in 1 .. n |-> IF i <= Len(v) THEN v[i] ELSE new]

\* assert(vkCreateSwapchainKHR(..) == VK_SUCCESS) and
\* m_swapChainImageBuffers.resize(imageCount): the platform makes at least
\* the number of images asked for.  With a count outside the bounds of the
\* surface the call is not valid; it makes a swapchain or fails.
CreateSwapchainKHR ==
  /\ ipc = "vkCreateSwapchainKHR"
  /\ \/ /\ \E n \in imageCountAsked .. (imageCountAsked + MaxExtraImages) : swapchainImages' = n
        /\ m_swapChainImageBuffers' = Resize(m_swapChainImageBuffers, imageCountAsked, NoHandles)
        /\ loopIndex' = 0
        /\ creations' = creations + 1
        /\ ipc' = "images"
     \/ /\ ~ValidImageCount(surfaceCapabilities, imageCountAsked)
        /\ ipc' = "aborted"
        /\ UNCHANGED <<swapchainImages, m_swapChainImageBuffers, loopIndex, creations>>
  /\ UNCHANGED <<surfaceCapabilities, imageCountAsked, m_swapChainFrameBuffers, overrun, acquiredIndex,
                 framebuffer>>
  /\ UNCHANGED <<programVars, surfaceVars, memVars, transferVars, textureVars, transitionVars, uploadVars, stagingVars, waitVars>>

Min2(a, b) == IF a < b THEN a ELSE b

\* vkGetSwapchainImagesKHR(device, swapchain, &count, pSwapchainImages) with
\* pSwapchainImages = &element.m_image: the first `count` images of the
\* swapchain are written to consecutive VkImage places from that address on,
\* which are the members m_image, m_memory and m_imageView of the element
GetSwapchainImages(element, count) ==
  LET n == Min2(count, swapchainImages)
  IN [m_image |-> IF n > 0 THEN <<"image", 0>> ELSE element.m_image,
      m_memory |-> IF n > 1 THEN <<"image", 1>> ELSE element.m_memory,
      m_imageView |-> IF n > 2 THEN <<"image", 2>> ELSE element.m_imageView]

\* the handle members an ImageBuffer has from m_image on
HandleMembers == 3

\* ImageBuffer::CreateImageViews of a swapchain image buffer: m_imageView
\* becomes a view of m_image
CreateImageViewOf(element) ==
  [element EXCEPT !.m_imageView =
     IF element.m_image = "null" THEN "null" ELSE <<"view", element.m_image[2]>>]

\* one iteration of the loop of CreateSwapChain, and its exit
StoreSwapchainImage ==
  /\ ipc = "images"
  /\ loopIndex < Len(m_swapChainImageBuffers)
  /\ m_swapChainImageBuffers' =
       [m_swapChainImageBuffers EXCEPT ![loopIndex + 1] =
          CreateImageViewOf(GetSwapchainImages(m_swapChainImageBuffers[loopIndex + 1], imageCountAsked))]
  /\ overrun' = (overrun \/ Min2(imageCountAsked, swapchainImages) > HandleMembers)
  /\ loopIndex' = loopIndex + 1
  /\ ipc' = IF loopIndex + 1 < Len(m_swapChainImageBuffers) THEN "images" ELSE "CreateFrameBuffers"
  /\ UNCHANGED <<surfaceCapabilities, imageCountAsked, swapchainImages, m_swapChainFrameBuffers,
                 acquiredIndex, framebuffer, creations>>
  /\ UNCHANGED <<programVars, surfaceVars, memVars, transferVars, textureVars, transitionVars, uploadVars, stagingVars, waitVars>>

\* HelloTriangleApplication::CreateFrameBuffers: one framebuffer for each
\* element, its third attachment the element's view
CreateFrameBuffers ==
  /\ ipc = "CreateFrameBuffers"
  /\ m_swapChainFrameBuffers' =
       [i \in 1 .. Len(m_swapChainImageBuffers) |-> m_swapChainImageBuffers[i].m_imageView]
  /\ ipc' = "DrawFrame"
  /\ UNCHANGED <<surfaceCapabilities, imageCountAsked, swapchainImages, m_swapChainImageBuffers,
                 loopIndex, overrun, acquiredIndex, framebuffer, creations>>
  /\ UNCHANGED <<programVars, surfaceVars, memVars, transferVars, textureVars, transitionVars, uploadVars, stagingVars, waitVars>>

\* vkAcquireNextImageKHR succeeds: the index of any image of the swapchain
AcquireSucceeds ==
  /\ ipc = "DrawFrame"
  /\ \E k \in 0 .. (swapchainImages - 1) : acquiredIndex' = k
  /\ ipc' = "RecordCommandBuffer"
  /\ UNCHANGED <<surfaceCapabilities, imageCountAsked, swapchainImages, m_swapChainImageBuffers,
                 m_swapChainFrameBuffers, loopIndex, overrun, framebuffer, creations>>
  /\ UNCHANGED <<programVars, surfaceVars, memVars, transferVars, textureVars, transitionVars, uploadVars, stagingVars, waitVars>>

\* renderPassInfo.framebuffer = m_swapChainFrameBuffers[imageidx]
FramebufferAt(imageidx) ==
  IF imageidx < Len(m_swapChainFrameBuffers)
  THEN m_swapChainFrameBuffers[imageidx + 1] ELSE "out_of_range"

RecordFramebuffer ==
  /\ ipc = "RecordCommandBuffer"
  /\ framebuffer' = FramebufferAt(acquiredIndex)
  /\ ipc' = "DrawFrame"
  /\ UNCHANGED <<surfaceCapabilities, imageCountAsked, swapchainImages, m_swapChainImageBuffers,
                 m_swapChainFrameBuffers, loopIndex, overrun, acquiredIndex, creations>>
  /\ UNCHANGED <<programVars, surfaceVars, memVars, transferVars, textureVars, transitionVars, uploadVars, stagingVars, waitVars>>

\* RecreateSwapChain calls CreateSwapChain again
RecreateImages ==
  /\ ipc = "DrawFrame"
  /\ creations <= MaxRecreates
  /\ ipc' = "CreateSwapChain"
  /\ UNCHANGED <<surfaceCapabilities, imageCountAsked, swapchainImages, m_swapChainImageBuffers,
                 m_swapChainFrameBuffers, loopIndex, overrun, acquiredIndex, framebuffer, creations>>
  /\ UNCHANGED <<programVars, surfaceVars, memVars, transferVars, textureVars, transitionVars, uploadVars, stagingVars, waitVars>>

NextImages ==
  \/ FillCreateInfo
  \/ CreateSwapchainKHR
  \/ StoreSwapchainImage
  \/ CreateFrameBuffers
  \/ AcquireSucceeds
  \/ RecordFramebuffer
  \/ RecreateImages

SpecImages == InitImages /\ [][NextImages]_vars

C35_AcquiredIndexInRange ==
  ipc = "RecordCommandBuffer" =>
    /\ acquiredIndex < Len(m_swapChainFrameBuffers)
    /\ acquiredIndex < Len(m_swapChainImageBuffers)

\* C36: the image count CreateSwapChain asks for is minImageCount + 1 and is
\* not above maxImageCount where the surface reports a maximum.
C36_RequestWithinMaximum ==
  ipc = "vkCreateSwapchainKHR" =>
    /\ imageCountAsked = surfaceCapabilities.minImageCount + 1
    /\ surfaceCapabilities.maxImageCount > 0 => imageCountAsked <= surfaceCapabilities.maxImageCount


\* a submission that will signal the fence of slot s is on the graphics queue
FencePending(s) == \E i \in 1 .. Len(queue) : queue[i].fence = s

\* C32: a fence that is not signaled has a submission on the queue that
\* signals it, or belongs to the slot of a tick that has reset it and is on
\* its way to the submit; so the fence DrawFrame waits on is signaled or
\* pending, and on a device that completes what is submitted every fence
\* wait comes to an end.
C32_FenceWaitEnds ==
  /\ [](pc \notin {"init", "init_deps"} =>
          \A s \in Slots :
            ~m_inFlightFences[s] =>
              \/ FencePending(s)
              \/ s = m_currentFrame /\ pc \in {"update", "record", "submit"})
  /\ (pc = "wait") ~> (pc = "acquire")

\* DrawFrame waits on a fence that is not yet signaled; its submission is
\* still on the queue
C32_Witness ==
  /\ pc = "wait"
  /\ ~m_inFlightFences[m_currentFrame]
  /\ FencePending(m_currentFrame)


\* the tick has been aborted: its acquire reported out-of-date and
\* RecreateSwapChain was called, and it has not presented
AbortedTick == "recreate" \in Range(tickLog) /\ "present" \notin Range(tickLog)

\* C33 as stated: while a tick aborted at its acquire runs, the slot index,
\* the state of every fence, every uniform buffer and every recorded command
\* buffer stay as they are.
C33_AbortChangesNothing ==
  [][ AbortedTick =>
        /\ m_currentFrame' = m_currentFrame
        /\ m_inFlightFences' = m_inFlightFences
        /\ m_uniformBuffers' = m_uniformBuffers
        /\ m_commandBuffers' = m_commandBuffers
    ]_vars

\* C33, amended: from its fence wait to its return a tick aborted at its
\* acquire changes neither the slot index nor a uniform buffer nor a
\* recorded command buffer and resets no fence (a fence with a submission
\* pending becomes signaled while RecreateSwapChain waits for the device);
\* the tick returns to MainLoop with the slot index it began with.
C33_AbortResetsNothing ==
  [][ (pc \in {"wait", "acquire"} \/ AbortedTick) =>
        /\ m_currentFrame' = m_currentFrame
        /\ \A s \in Slots : m_inFlightFences[s] => m_inFlightFences'[s]
        /\ m_uniformBuffers' = m_uniformBuffers
        /\ m_commandBuffers' = m_commandBuffers
        /\ (AbortedTick' /\ pc' # pc) => pc' \in RecreatePcs \cup {"poll", "exit_idle"}
    ]_vars

\* a tick of slot 1 was aborted and has returned; the tick of slot 0 before
\* it had written its uniform buffer and recorded its command buffer
C33_Witness ==
  /\ pc = "poll"
  /\ AbortedTick
  /\ "rebuild" \in Range(tickLog)
  /\ m_currentFrame = 1
  /\ m_uniformBuffers[0] = "written"
  /\ m_commandBuffers[0].image # NoImage
  /\ \A s \in Slots : m_inFlightFences[s]


\* the acquire issued in this step signals a semaphore that is unsignaled
\* and has no signal pending
AcquireSignalsFreeSemaphore ==
  \A a \in acquiring' \ acquiring :
    /\ m_imageAvailableSemaphores[a.sem] = "unsignaled"
    /\ \A b \in acquiring : b.sem # a.sem

\* the submit issued in this step signals a semaphore that is unsignaled
\* and has no signal pending
SubmitSignalsFreeSemaphore ==
  Len(queue') > Len(queue) =>
    /\ m_renderFinishedSemaphores[Last(queue').signalSem] = "unsignaled"
    /\ \A i \in 1 .. Len(queue) : queue[i].signalSem # Last(queue').signalSem

\* C34: no acquire is issued on an imageAvailable semaphore and no submit
\* on a renderFinished semaphore whose earlier signal has not been consumed
\* by the wait of the submit, respectively of the present.
C34_BinarySemaphoreDiscipline ==
  [][AcquireSignalsFreeSemaphore /\ SubmitSignalsFreeSemaphore]_vars


\* positions of DrawFrame from its start to the present
TickPcs == {"wait", "acquire", "reset", "update", "record", "submit", "present"}

Uploads == <<"CreateTextureImage", "CreateVertexIndexBuffer", "CreateVertexIndexBuffer">>

\* the transfer call that reads the staging buffer of an upload function
StagingCopy(upload) ==
  IF upload = "CreateTextureImage" THEN "CopyBuffer2Image" ELSE "CopyBuffer"

\* the calls that release a staging buffer at the end of an upload function
StagingReleases_NoFree == <<"vkDestroyBuffer">>
StagingReleases == <<"vkDestroyBuffer", "vkFreeMemory">>

NoStaging == [buffer |-> "none", memory |-> "none", size |-> 0]

InitStaging ==
  /\ ProgramInit
  /\ SurfaceUnused
  /\ WaitUnused
  /\ ImagesUnused
  /\ UploadUnused
  /\ TransitionUnused
  /\ MemUnused
  /\ TextureUnused
  /\ transferCall = "none"
  /\ tpc = "idle"
  /\ callCount = 0
  /\ commandBuffer = NoCommandBuffer
  /\ poolAllocated = 0
  /\ m_graphicsQueue = <<>>
  /\ executed = <<>>
  /\ callLog = <<>>
  /\ uploadNo = 1
  /\ spc = "create"
  /\ staging = [u \in 1 .. Len(Uploads) |-> NoStaging]
  /\ released = [u \in 1 .. Len(Uploads) |-> <<>>]
  /\ srcOf = <<>>

\* CreateBuffer(size, TRANSFER_SRC, HOST_VISIBLE | HOST_COHERENT,
\* stagingBuffer, stagingMemory) for the size of the data
CreateStaging ==
  /\ spc = "create"
  /\ \E size \in 1 .. MaxBytes :
       staging' = [staging EXCEPT ![uploadNo] = [buffer |-> "live", memory |-> "live", size |-> size]]
  /\ spc' = "fill"
  /\ UNCHANGED <<uploadNo, released, srcOf>>
  /\ UNCHANGED <<programVars, surfaceVars, memVars, transferVars, textureVars, transitionVars, uploadVars,
                 imagesVars, waitVars>>

\* vkMapMemory, memcpy, vkUnmapMemory; then the destination is made: the
\* device-local buffer, or the image and its transition to TRANSFER_DST
FillStaging ==
  /\ spc = "fill"
  /\ spc' = "copy"
  /\ UNCHANGED <<uploadNo, staging, released, srcOf>>
  /\ UNCHANGED <<programVars, surfaceVars, memVars, transferVars, textureVars, transitionVars, uploadVars,
                 imagesVars, waitVars>>

\* CopyBuffer(stagingBuffer, ..) or CopyBuffer2Image(stagingBuffer, ..) is
\* entered and calls BeginSingleTimeCommands
StagingCopyBegins ==
  /\ spc = "copy"
  /\ tpc = "idle"
  /\ transferCall' = StagingCopy(Uploads[uploadNo])
  /\ callCount' = callCount + 1
  /\ poolAllocated' = poolAllocated + 1
  /\ commandBuffer' = [state |-> "recording", flags |-> "ONE_TIME_SUBMIT", commands |-> <<>>,
                       call |-> callCount + 1]
  /\ callLog' = <<"vkAllocateCommandBuffers", "vkBeginCommandBuffer">>
  /\ tpc' = "record"
  /\ srcOf' = Append(srcOf, uploadNo)
  /\ spc' = "copying"
  /\ UNCHANGED <<m_graphicsQueue, executed, uploadNo, staging, released>>
  /\ UNCHANGED <<programVars, surfaceVars, memVars, textureVars, transitionVars, uploadVars, imagesVars, waitVars>>

\* the transfer call has returned; CreateTextureImage goes on with
\* GenerateMipmaps or the transition to SHADER_READ_ONLY, which do not use
\* the staging buffer
StagingCopyReturns ==
  /\ spc = "copying"
  /\ tpc = "idle"
  /\ spc' = "release"
  /\ UNCHANGED <<uploadNo, staging, released, srcOf>>
  /\ UNCHANGED <<programVars, surfaceVars, memVars, transferVars, textureVars, transitionVars, uploadVars,
                 imagesVars, waitVars>>

\* the effect of a release call on a staging buffer
Release(sb, call) ==
  IF call = "vkDestroyBuffer" THEN [sb EXCEPT !.buffer = "destroyed"]
  ELSE [sb EXCEPT !.memory = "freed"]

\* the next of the release calls at the end of the upload function; after
\* the last one the function returns and the constructor goes on
ReleaseStaging ==
  /\ spc = "release"
  /\ LET n == Len(released[uploadNo]) + 1
         last == n >= Len(StagingReleases)
     IN /\ staging' = [staging EXCEPT ![uploadNo] = Release(@, StagingReleases[n])]
        /\ released' = [released EXCEPT ![uploadNo] = Append(@, StagingReleases[n])]
        /\ spc' = IF ~last THEN "release"
                  ELSE IF uploadNo < Len(Uploads) THEN "create" ELSE "loaded"
        /\ uploadNo' = IF last /\ uploadNo < Len(Uploads) THEN uploadNo + 1 ELSE uploadNo
  /\ UNCHANGED srcOf
  /\ UNCHANGED <<programVars, surfaceVars, memVars, transferVars, textureVars, transitionVars, uploadVars,
                 imagesVars, waitVars>>

NextStaging ==
  \/ CreateStaging
  \/ FillStaging
  \/ StagingCopyBegins
  \/ RecordCopy
  \/ EndAndSubmit
  \/ GpuExecuteTransfer
  \/ QueueWaitIdle
  \/ FreeCommandBuffers
  \/ StagingCopyReturns
  \/ ReleaseStaging

SpecStaging == InitStaging /\ [][NextStaging]_vars

\* a copy command that reads the staging buffer of upload u is submitted and
\* has not completed
ReadPending(u) ==
  \E i \in 1 .. Len(m_graphicsQueue) : srcOf[m_graphicsQueue[i].call] = u

\* the copy command that reads the staging buffer of upload u has completed
ReadCompleted(u) ==
  \E i \in 1 .. Len(executed) : srcOf[executed[i].call] = u

\* C38: the staging buffer of every upload is destroyed once and its memory
\* freed once, after the copy command that reads it has completed on the
\* GPU and before the upload function returns; when the model is loaded no
\* staging buffer is left.
C38_StagingReleasedOnce ==
  \A u \in 1 .. Len(Uploads) :
    /\ \A i, j \in 1 .. Len(released[u]) : released[u][i] = released[u][j] => i = j
    /\ released[u] # <<>> => ReadCompleted(u) /\ ~ReadPending(u)
    /\ (staging[u].buffer = "live" \/ staging[u].memory = "live") =>
         (u = uploadNo /\ spc \in {"fill", "copy", "copying", "release"})
    /\ (u < uploadNo \/ spc = "loaded") =>
         /\ staging[u].buffer = "destroyed"
         /\ staging[u].memory = "freed"

\* the model is loaded: three staging buffers were made and released, the
\* copy out of each one completed
C38_Witness ==
  /\ spc = "loaded"
  /\ \A u \in 1 .. Len(Uploads) : released[u] = <<"vkDestroyBuffer", "vkFreeMemory">>
  /\ Len(executed) = 3
  /\ executed[1].command = "vkCmdCopyBufferToImage"
  /\ executed[3].command = "vkCmdCopyBuffer"


\* ---------------------------------------------------------------------
\* The wait loop of RecreateSwapChain with the events of the window:
\*   int width = 0, height = 0;
\*   while (width == 0 || height == 0) {
\*     glfwGetFramebufferSize(m_window, &width, &height); glfwWaitEvents(); }
\* ---------------------------------------------------------------------
InitWait ==
  /\ ProgramInit
  /\ SurfaceUnused
  /\ StagingUnused
  /\ ImagesUnused
  /\ UploadUnused
  /\ TransitionUnused
  /\ MemUnused
  /\ TransferUnused
  /\ TextureUnused
  /\ windowSize \in Sizes
  /\ eventQueue \in {0, 1}
  /\ posted = 0
  /\ localSize = <<0, 0>>
  /\ wpc = "while"

\* the loop test
WaitLoopTest ==
  /\ wpc = "while"
  /\ wpc' = IF SizeLoopContinues(localSize[1], localSize[2])
            THEN "glfwGetFramebufferSize" ELSE "vkDeviceWaitIdle"
  /\ UNCHANGED <<windowSize, eventQueue, posted, localSize>>
  /\ UNCHANGED <<programVars, surfaceVars, memVars, transferVars, textureVars, transitionVars, uploadVars,
                 imagesVars, stagingVars>>

\* glfwGetFramebufferSize(m_window, &width, &height)
GetFramebufferSize ==
  /\ wpc = "glfwGetFramebufferSize"
  /\ localSize' = windowSize
  /\ wpc' = "glfwWaitEvents"
  /\ UNCHANGED <<windowSize, eventQueue, posted>>
  /\ UNCHANGED <<programVars, surfaceVars, memVars, transferVars, textureVars, transitionVars, uploadVars,
                 imagesVars, stagingVars>>

\* glfwWaitEvents(): the thread sleeps until at least one event is in the
\* queue, processes the queued events and returns
WaitEvents ==
  /\ wpc = "glfwWaitEvents"
  /\ eventQueue > 0
  /\ eventQueue' = 0
  /\ wpc' = "while"
  /\ UNCHANGED <<windowSize, posted, localSize>>
  /\ UNCHANGED <<programVars, surfaceVars, memVars, transferVars, textureVars, transitionVars, uploadVars,
                 imagesVars, stagingVars>>

\* the window system queues an event for the window: the framebuffer has a
\* new size, or something else happened
WindowEvent ==
  /\ wpc \in {"while", "glfwGetFramebufferSize", "glfwWaitEvents"}
  /\ posted < MaxEvents
  /\ posted' = posted + 1
  /\ eventQueue' = eventQueue + 1
  /\ \E w \in Sizes : windowSize' = w
  /\ UNCHANGED <<localSize, wpc>>
  /\ UNCHANGED <<programVars, surfaceVars, memVars, transferVars, textureVars, transitionVars, uploadVars,
                 imagesVars, stagingVars>>

NextWait ==
  \/ WaitLoopTest
  \/ GetFramebufferSize
  \/ WaitEvents
  \/ WindowEvent

SpecWait == InitWait /\ [][NextWait]_vars

\* C39: RecreateSwapChain needs no event of the window to go on once the
\* size it has read is non-zero: it sleeps in wait of an event only while
\* the width or the height it has read is zero.
C39_NoEventNeededWhenNonZero ==
  (wpc = "glfwWaitEvents" /\ eventQueue = 0) =>
     SizeLoopContinues(localSize[1], localSize[2])

====
